---- MODULE Spec2Model ----
(***************************************************************************)
(* tvfamily: the provider registry (TorrentEngine._reload_plugins), the    *)
(* aggregation engine (fetch_top / top / _filter) and the resolution cache *)
(* (TitlesDB._get_title_from_torrent), modelled from src/tvfamily/core.py, *)
(* src/tvfamily/imdb.py and src/tvfamily/torrent.py.                       *)
(*                                                                         *)
(* Python strings are sequences of one-character strings, compared by code *)
(* point as Python compares str values.                                    *)
(***************************************************************************)
EXTENDS Integers, Sequences, FiniteSets, TLC

VARIABLES
    dirOK,          \* os.listdir(plugins_path) succeeds (FALSE: raises OSError)
    dirFiles,       \* the file names in the plugins directory
    plugins,        \* TorrentEngine._plugins: the loaded modules, in order
    loads,          \* module executions so far (a handle's id is its load number)
    lastReload,     \* the reload that has just run: what it started from, how it ended
    snapshot,       \* per category, the content of torrents-<id>.json (or NoFile)
    fetchPc,        \* per category, where its fetch_top coroutine is
    lastFetch,      \* the fetch_top that has just completed: provider outcomes, result
    topRet,         \* the top() call that has just returned
    filterCall,     \* the _filter call under study: its arguments and its result
    t2i,            \* TitlesDB._torrents_to_imdb: key -> imdb id
    notFound,       \* TitlesDB._titles_not_found
    task,           \* per resolve coroutine: idle, or the search it is awaiting
    lastResolve,    \* the fetch_title_from_torrent call that has just ended
    searches,       \* per key, metadata searches issued so far
    fetches,        \* IMDBTitle.fetch HTTP requests issued so far
    searchPc,       \* where the TorrentEngine.search coroutine is
    lastSearch,     \* the TorrentEngine.search call that has just ended
    now,            \* the clock: datetime.datetime.now()
    schedPc,        \* where TaskScheduler.run is: "start", "loop" or "sleeping"
    t0,             \* the instant at which run started
    next_execution, \* the local variable next_execution of run
    iter,           \* iterations of the loop of run begun so far
    sleepUntil,     \* the instant the gen.sleep of run ends
    tasks,          \* what the tasks of the current iteration of run have done
    pipe,           \* per category, where its _fetch_torrents_of_category is
    lastTick,       \* the _fetch_top_torrents call that has just ended
    fileT2I,        \* the content of torrents2titles.json (or NoFile)
    fileNF,         \* the content of notfound.json (or NoFile)
    phase,          \* the process: "running", "stopped", or "restarted"
    lastSave,       \* the save_databases call that has just ended
    lastLoad,       \* the TitlesDB that has just been constructed on the files
    reqPc,          \* where _request is: "idle", "fetching" or "sleeping"
    reqUrl,         \* the url of the _request call
    attempts,       \* fetches the _request call has issued
    wait,           \* the duration of the current sleep of _request
    waited,         \* the time the _request call has slept
    lastResp,       \* how the last fetch of _request ended
    lastRequest,    \* the _request call that has just ended
    aggPc,          \* where the aggregate call is: "idle", "waiting" or "done"
    aggOp,          \* the aggregate call: "fetch_top" or "search"
    aggArg,         \* its category id, or its query
    calls,          \* per plugin, its wrapped call inside the gen.multi of the aggregate
    aggRet,         \* how the aggregate call ended
    partial,        \* per snapshot file: it holds a proper prefix of a JSON text (truncated)
    writing,        \* per category, the fetch_top that is between its open and its close
    topRead,        \* the top() of a reader of the snapshot files that has just ended
    profiles,       \* ProfilesManager._profiles: the names, in insertion order
    profilesFile,   \* the file profiles.json
    pictures,       \* the names n for which a file n.png exists
    lastOp,         \* the profile operation that has just ended
    catalog,        \* per imdb id, the content of <videos path>/<id>/db.json (or NoFile)
    mediasCall,     \* the get_medias_from_torrents call that has just ended
    coreTop,        \* the Core.top call that has just ended
    options,        \* the options given to Core: per section, its keys
    daemon,         \* the daemon argument of Core
    core,           \* the Core(options, daemon) call that has just ended
    parser,         \* the TorrentsListParser of the page being read
    rows,           \* the rows of the page fed so far
    pageRet,        \* what the wrapped top() of the provider has returned
    webResp,        \* the profile request the web service has just answered, and the answer
    videoResp       \* the video request the web service has just answered, and the answer

vars == <<dirOK, dirFiles, plugins, loads, lastReload, snapshot, fetchPc,
          lastFetch, topRet, filterCall, t2i, notFound, task, lastResolve,
          searches, fetches, searchPc, lastSearch, now, schedPc, t0,
          next_execution, iter, sleepUntil, tasks, pipe, lastTick, fileT2I,
          fileNF, phase, lastSave, lastLoad, reqPc, reqUrl, attempts, wait,
          waited, lastResp, lastRequest,
          aggPc, aggOp, aggArg, calls, aggRet,
          partial, writing, topRead,
          profiles, profilesFile, pictures, lastOp,
          catalog, mediasCall, coreTop,
          options, daemon, core,
          parser, rows, pageRet,
          webResp,
          videoResp>>

registryVars == <<dirOK, dirFiles, plugins, loads, lastReload>>
engineVars == <<snapshot, fetchPc, lastFetch, topRet>>
cacheVars == <<t2i, notFound, task, lastResolve, searches, fetches>>
searchVars == <<searchPc, lastSearch>>
\* what the registry, the engine's top lists, the filter and the resolution
\* cache leave alone
schedVars == <<now, schedPc, t0, next_execution, iter, sleepUntil, tasks>>
tickVars == <<pipe, lastTick>>
persistVars == <<fileT2I, fileNF, phase, lastSave, lastLoad>>
requestVars == <<reqPc, reqUrl, attempts, wait, waited, lastResp, lastRequest>>
aggregateVars == <<aggPc, aggOp, aggArg, calls, aggRet>>
overwriteVars == <<partial, writing, topRead>>
profilesVars == <<profiles, profilesFile, pictures, lastOp>>
topVars == <<catalog, mediasCall, coreTop>>
startupVars == <<options, daemon, core>>
parseVars == <<parser, rows, pageRet>>
webVars == <<webResp>>
videoVars == <<videoResp>>
extVars == <<searchVars, schedVars, tickVars, persistVars, requestVars,
            aggregateVars, overwriteVars, profilesVars, topVars, startupVars, parseVars,
            webVars, videoVars>>
\* what each of these parts leaves alone, besides registry, engine, filter and
\* resolution cache
beyondSearch == <<schedVars, tickVars, persistVars, requestVars,
        aggregateVars, overwriteVars, profilesVars, topVars, startupVars, parseVars,
        webVars, videoVars>>
beyondSched == <<searchVars, tickVars, persistVars, requestVars,
        aggregateVars, overwriteVars, profilesVars, topVars, startupVars, parseVars,
        webVars, videoVars>>
beyondTick == <<searchVars, schedVars, persistVars, requestVars,
        aggregateVars, overwriteVars, profilesVars, topVars, startupVars, parseVars,
        webVars, videoVars>>
beyondPersist == <<searchVars, schedVars, tickVars, requestVars,
        aggregateVars, overwriteVars, profilesVars, topVars, startupVars, parseVars,
        webVars, videoVars>>
beyondRequest == <<searchVars, schedVars, tickVars, persistVars,
        aggregateVars, overwriteVars, profilesVars, topVars, startupVars, parseVars,
        webVars, videoVars>>
beyondAggregate == <<searchVars, schedVars, tickVars, persistVars,
        requestVars, overwriteVars, profilesVars, topVars, startupVars, parseVars,
        webVars, videoVars>>
beyondOverwrite == <<searchVars, schedVars, tickVars, persistVars,
        requestVars, aggregateVars, profilesVars, topVars, startupVars, parseVars,
        webVars, videoVars>>
beyondProfiles == <<searchVars, schedVars, tickVars, persistVars,
        requestVars, aggregateVars, overwriteVars, topVars, startupVars, parseVars,
        webVars, videoVars>>
beyondTop == <<searchVars, schedVars, tickVars, persistVars, requestVars,
        aggregateVars, overwriteVars, profilesVars, startupVars, parseVars, webVars,
        videoVars>>
beyondStartup == <<searchVars, schedVars, tickVars, persistVars,
        requestVars, aggregateVars, overwriteVars, profilesVars, topVars, parseVars,
        webVars, videoVars>>
beyondParse == <<searchVars, schedVars, tickVars, persistVars, requestVars,
        aggregateVars, overwriteVars, profilesVars, topVars, startupVars, webVars,
        videoVars>>
beyondWeb == <<searchVars, schedVars, tickVars, persistVars, requestVars,
        aggregateVars, overwriteVars, profilesVars, topVars, startupVars, parseVars,
        videoVars>>
beyondProfilesWeb == <<searchVars, schedVars, tickVars, persistVars,
        requestVars, aggregateVars, overwriteVars, topVars, startupVars, parseVars,
        videoVars>>
beyondVideo == <<searchVars, schedVars, tickVars, persistVars, requestVars,
        aggregateVars, overwriteVars, profilesVars, topVars, startupVars, parseVars,
        webVars>>

\* Python's None where the other values are strings
None == "None"

\* An optional value: Nothing (Python's None, or no call yet), or Some(x)
Nothing == <<>>
Some(x) == <<x>>

(***************************************************************************)
(* Python str: comparison, startswith, endswith, rsplit.                   *)
(***************************************************************************)

\* ord(c) for the characters that occur in the modelled names
Ord(c) ==
    CASE c = " " -> 32 [] c = "-" -> 45 [] c = "." -> 46
      [] c = "0" -> 48 [] c = "1" -> 49 [] c = "2" -> 50 [] c = "3" -> 51
      [] c = "4" -> 52 [] c = "5" -> 53 [] c = "6" -> 54 [] c = "7" -> 55
      [] c = "8" -> 56 [] c = "9" -> 57
      [] c = "A" -> 65 [] c = "M" -> 77 [] c = "T" -> 84
      [] c = "a" -> 97 [] c = "b" -> 98 [] c = "c" -> 99 [] c = "d" -> 100
      [] c = "e" -> 101 [] c = "f" -> 102 [] c = "h" -> 104 [] c = "i" -> 105
      [] c = "m" -> 109 [] c = "n" -> 110 [] c = "o" -> 111 [] c = "p" -> 112
      [] c = "r" -> 114 [] c = "s" -> 115 [] c = "t" -> 116
      [] c = "x" -> 120 [] c = "y" -> 121 [] c = "~" -> 126
      [] c = "e'" -> 233          \* U+00E9, e with acute accent

\* s < t on Python strings: lexicographic by code point, a proper prefix first
RECURSIVE StrLess(_, _)
StrLess(s, t) ==
    IF t = <<>> THEN FALSE
    ELSE IF s = <<>> THEN TRUE
    ELSE IF Head(s) = Head(t) THEN StrLess(Tail(s), Tail(t))
    ELSE Ord(Head(s)) < Ord(Head(t))

\* x.startswith(p)
StartsWith(x, p) == Len(x) >= Len(p) /\ SubSeq(x, 1, Len(p)) = p

\* x.endswith(s)
EndsWith(x, s) ==
    Len(x) >= Len(s) /\ SubSeq(x, Len(x) - Len(s) + 1, Len(x)) = s

\* x.rsplit('.', 1)[0]: what precedes the last '.', all of x when it has none
RSplitDot(x) ==
    LET dots == {i \in 1..Len(x) : x[i] = "."}
    IN  IF dots = {} THEN x
        ELSE SubSeq(x, 1, (CHOOSE i \in dots : \A k \in dots : k <= i) - 1)

\* sorted(S) for a set of distinct strings
RECURSIVE SortedStrs(_)
SortedStrs(S) ==
    IF S = {} THEN <<>>
    ELSE LET m == CHOOSE x \in S : \A y \in S \ {x} : StrLess(x, y)
         IN  <<m>> \o SortedStrs(S \ {m})

(***************************************************************************)
(* The provider registry: TorrentEngine._reload_plugins.                   *)
(***************************************************************************)

PyExt == <<".", "p", "y">>
DisableMarker == <<"~">>
Sentinel == <<"~">>

\* File names a plugins directory may hold: plugins, a disabled plugin, a file
\* that is no Python source, a name in which '-' precedes the extension's '.',
\* and a name that starts with a character above '~'.
F_a == <<"a", ".", "p", "y">>
F_a_b == <<"a", "-", "b", ".", "p", "y">>
F_b == <<"b", ".", "p", "y">>
F_tilde_b == <<"~", "b", ".", "p", "y">>
F_b_txt == <<"b", ".", "t", "x", "t">>
F_eacute == <<"e'", ".", "p", "y">>

RegistryFiles == {F_a, F_a_b, F_b, F_tilde_b, F_b_txt, F_eacute}

\* the candidate plugin files of a directory listing (core.py:1002-1003)
PluginsFiles(files) ==
    SortedStrs({x \in files : EndsWith(x, PyExt) /\ ~StartsWith(x, DisableMarker)})

\* importlib: executing the module of file f gives a new module object
LoadModule(f, n) == [name |-> RSplitDot(f), id |-> n + 1]

\* The two-cursor walk (core.py:1007-1026) from cursors i, j with result list acc
\* and n module executions so far.  plugins_names[j] with j past the sentinel
\* raises IndexError, which _reload_plugins does not catch.
RECURSIVE MergeWalk(_, _, _, _, _, _, _)
MergeWalk(files, names, old, i, j, acc, n) ==
    IF i > Len(files) THEN [plugins |-> acc, loads |-> n, raised |-> None]
    ELSE IF j > Len(names) THEN [plugins |-> acc, loads |-> n, raised |-> "IndexError"]
    ELSE LET new_plugin_name == RSplitDot(files[i])
         IN  IF new_plugin_name = names[j]
             THEN MergeWalk(files, names, old, i + 1, j + 1, Append(acc, old[j]), n)
             ELSE IF StrLess(new_plugin_name, names[j])
             THEN MergeWalk(files, names, old, i + 1, j,
                            Append(acc, LoadModule(files[i], n)), n + 1)
             ELSE MergeWalk(files, names, old, i, j + 1, acc, n)

\* _reload_plugins on handle list old: the new self._plugins, the module
\* executions, and the exception that escapes (None when it returns).
\* os.listdir raising OSError leaves the local list empty, and the assignment
\* after the handlers (core.py:1033) stores it.
ReloadPlugins(old, ok, files, n) ==
    IF ~ok THEN [plugins |-> <<>>, loads |-> n, raised |-> None]
    ELSE LET plugins_files == PluginsFiles(files)
             plugins_names == [k \in 1..Len(old) |-> old[k].name] \o <<Sentinel>>
             w == MergeWalk(plugins_files, plugins_names, old, 1, 1, <<>>, n)
         IN  IF w.raised = None THEN w
             ELSE [plugins |-> old, loads |-> w.loads, raised |-> w.raised]

MaxLoads == 4

\* the environment changes the plugins directory
ChangeDir(universe) ==
    /\ \E ok \in BOOLEAN, fs \in SUBSET universe :
          /\ <<ok, fs>> # <<dirOK, dirFiles>>
          /\ dirOK' = ok
          /\ dirFiles' = fs
    /\ lastReload' = Nothing
    /\ UNCHANGED <<plugins, loads>>

\* the state change of one _reload_plugins call
DoReload ==
    LET r == ReloadPlugins(plugins, dirOK, dirFiles, loads)
    IN  /\ r.loads <= MaxLoads
        /\ plugins' = r.plugins
        /\ loads' = r.loads
        /\ lastReload' = Some([before |-> plugins, raised |-> r.raised])
        /\ UNCHANGED <<dirOK, dirFiles>>

(***************************************************************************)
(* Categories and listings.                                                *)
(***************************************************************************)

Letters == {"a", "b", "c", "d", "e", "h", "i", "m", "n", "o", "p", "r", "s",
            "t", "v", "x", "y", "A", "M", "S", "T", "V"}

\* str.lower() on one character
LowerChar(c) ==
    CASE c = "A" -> "a" [] c = "M" -> "m" [] c = "S" -> "s" [] c = "T" -> "t"
      [] c = "V" -> "v" [] OTHER -> c

Lower(s) == [k \in 1..Len(s) |-> LowerChar(s[k])]

\* re.sub('[^a-zA-Z]+', '_', s): each maximal run of non-letters becomes one '_'
RECURSIVE SubNonLetters(_, _)
SubNonLetters(s, inRun) ==
    IF s = <<>> THEN <<>>
    ELSE IF Head(s) \in Letters THEN <<Head(s)>> \o SubNonLetters(Tail(s), FALSE)
    ELSE IF inRun THEN SubNonLetters(Tail(s), TRUE)
    ELSE <<"_">> \o SubNonLetters(Tail(s), TRUE)

\* Category.get_id
GetId(category) == SubNonLetters(Lower(category.name), FALSE)

\* Core._define_categories
TVSeries ==
    [name |-> <<"T", "V", " ", "S", "e", "r", "i", "e", "s">>,
     imdb_type |-> {"TV Series", "TV Mini-Series"}]
Movies ==
    [name |-> <<"M", "o", "v", "i", "e", "s">>, imdb_type |-> {"Movie"}]
Categories == {TVSeries, Movies}

\* The name parser on the torrent names of the model: the derived attributes
\* of each name; an attribute the name does not show is absent from the result.
TheMatrix == <<"T", "h", "e", " ", "M", "a", "t", "r", "i", "x">>
Ant == <<"A", "n", "t">>
PTNparse(name) ==
    CASE name = "The.Matrix.1999.1080p.BluRay.x264" ->
            [title |-> TheMatrix, year |-> 1999, resolution |-> "1080p",
             quality |-> "BluRay", codec |-> "x264"]
      [] name = "The.Matrix.720p.WEBRip.3D" ->
            [title |-> TheMatrix, resolution |-> "720p", quality |-> "WEBRip",
             3d |-> TRUE]
      [] name = "Ant.XviD" ->
            [title |-> Ant, codec |-> "XviD"]
      [] name = "Ant.2000.3D.HDRip.x264" ->
            [title |-> Ant, year |-> 2000, quality |-> "HDRip", codec |-> "x264",
             3d |-> TRUE]

TorrentNames == {"The.Matrix.1999.1080p.BluRay.x264", "The.Matrix.720p.WEBRip.3D",
                 "Ant.XviD", "Ant.2000.3D.HDRip.x264"}

\* dict.get(key, default)
Get(d, key, default) == IF key \in DOMAIN d THEN d[key] ELSE default

\* Torrent.__init__
Torrent(name, magnet, size, seeders, leechers) ==
    [name |-> name, magnet |-> magnet, size |-> size, seeders |-> seeders,
     leechers |-> leechers, name_info |-> PTNparse(name)]

\* Torrent.todict
ToDict(t) ==
    [name |-> t.name, magnet |-> t.magnet, size |-> t.size,
     seeders |-> t.seeders, leechers |-> t.leechers]

\* Torrent(**d) for a dictionary read from the snapshot file
FromDict(d) == Torrent(d.name, d.magnet, d.size, d.seeders, d.leechers)

\* the listings the providers of the model advertise
T1 == Torrent("The.Matrix.1999.1080p.BluRay.x264", "magnet:1", "1 GiB", 5, 2)
T2 == Torrent("The.Matrix.720p.WEBRip.3D", "magnet:2", "2 GiB", 50, 0)
T3 == Torrent("Ant.XviD", "magnet:3", None, 1, 7)
T4 == Torrent("Ant.2000.3D.HDRip.x264", "magnet:4", "4 GiB", 5, 1)
Torrents == {T1, T2, T3, T4}

(***************************************************************************)
(* The filter: TorrentEngine._filter and _filter_from_attr.                *)
(***************************************************************************)

\* _FILTER_QUALITY, _FILTER_CODEC, _FILTER_RESOLUTION: for each accepted value,
\* the attribute values of the model that its regular expression matches
\* (re.match of the patterns of core.py:887-906 on each value).
QualityAttrs == {"BluRay", "WEBRip", "HDRip"}
FILTER_QUALITY ==
    [f \in {"Cam", "Telesync", "Telecine", "Screener", "DVD-Rip", "HDTV",
            "WEB-DL", "WEBRip", "Blu-ray"} |->
        CASE f = "Blu-ray" -> {"BluRay"}
          [] f = "WEBRip" -> {"WEBRip"}
          [] f = "WEB-DL" -> {"HDRip"}
          [] OTHER -> {}]
FILTER_CODEC ==
    [f \in {"XviD", "H.264", "H.265"} |->
        CASE f = "XviD" -> {"XviD"} [] f = "H.264" -> {"x264"} [] OTHER -> {}]
FILTER_RESOLUTION ==
    [f \in {"720p", "1080p"} |-> {f}]

\* the inner loop of _filter_from_attr over the accepted values of filter, from
\* the k-th on: TRUE when torrent t is appended (and the loop left)
RECURSIVE PassesFrom(_, _, _, _, _)
PassesFrom(t, filter, attr, dictionary, k) ==
    IF k > Len(filter) THEN FALSE
    ELSE IF \/ attr \notin DOMAIN t.name_info          \* value is None
            \/ t.name_info[attr] \in dictionary[filter[k]]
         THEN TRUE
         ELSE PassesFrom(t, filter, attr, dictionary, k + 1)

\* FilterLoop without the break: a torrent is appended once per accepted value
\* that lets it pass
RECURSIVE FilterLoopNoBreak(_, _, _, _)
FilterLoopNoBreak(torrents, filter, attr, dictionary) ==
    IF torrents = <<>> THEN <<>>
    ELSE LET t == Head(torrents)
             hits == SelectSeq(filter, LAMBDA f :
                        \/ attr \notin DOMAIN t.name_info
                        \/ t.name_info[attr] \in dictionary[f])
         IN  [k \in 1..Len(hits) |-> t]
             \o FilterLoopNoBreak(Tail(torrents), filter, attr, dictionary)

\* the outer loop of _filter_from_attr for a filter that is not None
RECURSIVE FilterLoop(_, _, _, _)
FilterLoop(torrents, filter, attr, dictionary) ==
    IF torrents = <<>> THEN <<>>
    ELSE (IF PassesFrom(Head(torrents), filter, attr, dictionary, 1)
          THEN <<Head(torrents)>> ELSE <<>>)
         \o FilterLoop(Tail(torrents), filter, attr, dictionary)

\* _filter_from_attr; filter is Nothing (None) or Some(list of accepted values)
FilterFromAttr(torrents, filter, attr, dictionary) ==
    IF filter = Nothing THEN torrents
    ELSE FilterLoop(torrents, filter[1], attr, dictionary)

\* x in l, for a list l
InList(x, l) == \E k \in 1..Len(l) : l[k] = x

\* the 3-D clause of _filter (core.py:957-958)
Passes3D(t, f3d) ==
    f3d = Nothing \/ ~Get(t.name_info, "3d", FALSE) \/ InList("3D", f3d[1])

\* _filter; filters is Nothing (None) or Some(4-tuple)
Filter(torrents, filters) ==
    IF filters = Nothing THEN torrents
    ELSE LET f == filters[1]
             l1 == FilterFromAttr(torrents, f[1], "quality", FILTER_QUALITY)
             l2 == FilterFromAttr(l1, f[2], "codec", FILTER_CODEC)
             l3 == FilterFromAttr(l2, f[3], "resolution", FILTER_RESOLUTION)
         IN  SelectSeq(l3, LAMBDA t : Passes3D(t, f[4]))

\* the filters of the model: each component None or a list of accepted values
\* (the default settings of core.py:67-72 are among them)
QualityFilters ==
    {Nothing, Some(<<>>), Some(<<"Blu-ray">>), Some(<<"WEB-DL", "Blu-ray">>),
     Some(<<"DVD-Rip", "HDTV", "WEB-DL", "WEBRip", "Blu-ray">>)}
CodecFilters == {Nothing, Some(<<>>), Some(<<"H.264">>)}
ResolutionFilters == {Nothing, Some(<<"1080p">>), Some(<<"720p", "1080p">>)}
Filters3D == {Nothing, Some(<<>>), Some(<<"3D">>)}
FilterTuples ==
    {<<q, c, r, d>> : q \in QualityFilters, c \in CodecFilters,
                      r \in ResolutionFilters, d \in Filters3D}
DefaultFilters ==
    <<Some(<<"DVD-Rip", "HDTV", "WEB-DL", "WEBRip", "Blu-ray">>), Some(<<"H.264">>),
      Some(<<"720p", "1080p">>), Some(<<>>)>>
AllFilters == {Nothing} \cup {Some(f) : f \in FilterTuples}

MaxFilterLen == 2

\* the lists of at most n listings
ListsUpTo(n) == UNION {[1..k -> Torrents] : k \in 0..n}

\* one call of _filter
CallFilter ==
    /\ filterCall.ret = Nothing
    /\ filterCall' =
          [filterCall EXCEPT !.ret = Some(Filter(filterCall.torrents, filterCall.filters))]
    /\ UNCHANGED <<registryVars, engineVars, cacheVars, extVars>>

(***************************************************************************)
(* The aggregation engine: TorrentEngine.fetch_top and TorrentEngine.top.  *)
(***************************************************************************)

NoFile == Nothing

\* _get_torrents_list_file: the snapshot file of a category, named by its id
SnapshotFiles == {GetId(c) : c \in Categories}

\* sorted(l, key=lambda x: x.seeders, reverse=True): a stable sort, which
\* keeps listings of equal seeders in the order of l.  Insert x after the
\* last element whose seeders are >= those of x.
\* InsertDesc placing x before the listings of equal seeders
RECURSIVE InsertDescBeforeEqual(_, _)
InsertDescBeforeEqual(sorted, x) ==
    IF sorted = <<>> THEN <<x>>
    ELSE IF Head(sorted).seeders > x.seeders
         THEN <<Head(sorted)>> \o InsertDescBeforeEqual(Tail(sorted), x)
         ELSE <<x>> \o sorted

RECURSIVE InsertDesc(_, _)
InsertDesc(sorted, x) ==
    IF sorted = <<>> THEN <<x>>
    ELSE IF Head(sorted).seeders >= x.seeders
         THEN <<Head(sorted)>> \o InsertDesc(Tail(sorted), x)
         ELSE <<x>> \o sorted

RECURSIVE SortedBySeeders(_)
SortedBySeeders(l) ==
    IF l = <<>> THEN <<>>
    ELSE InsertDesc(SortedBySeeders(SubSeq(l, 1, Len(l) - 1)), l[Len(l)])

\* the torrents top() reads from a snapshot file (IOError: the empty list)
ReadSnapshot(content) ==
    IF content = NoFile THEN <<>>
    ELSE [k \in 1..Len(content[1]) |-> FromDict(content[1][k])]

\* TorrentEngine.top
Top(category, filters) ==
    SortedBySeeders(Filter(ReadSnapshot(snapshot[GetId(category)]), filters))

\* What a provider's top coroutine may do: raise, return None, return a list.
Raises == [raised |-> TRUE, value |-> Nothing]
Returns(v) == [raised |-> FALSE, value |-> v]
ProviderOutcomes ==
    {Raises, Returns(Nothing), Returns(Some(<<>>)), Returns(Some(<<T1, T2, T3>>)),
     Returns(Some(<<T4>>))}

\* _plugin_method_wrapper: the result of the call, None when it raised
PluginMethodWrapper(outcome) ==
    IF outcome.raised THEN Nothing ELSE outcome.value

\* Flatten leaving its loop at the first None result
RECURSIVE FlattenBreakAtNone(_, _)
FlattenBreakAtNone(results, k) ==
    IF k > Len(results) \/ results[k] = Nothing THEN <<>>
    ELSE results[k][1] \o FlattenBreakAtNone(results, k + 1)

\* the flattening loop of fetch_top (core.py:981-984) from the k-th result on
RECURSIVE Flatten(_, _)
Flatten(results, k) ==
    IF k > Len(results) THEN <<>>
    ELSE (IF results[k] # Nothing THEN results[k][1] ELSE <<>>)
         \o Flatten(results, k + 1)

\* Dump that writes the list even when it is empty
DumpAlways(old, torrents) ==
    Some([k \in 1..Len(torrents) |-> ToDict(torrents[k])])

\* the file fetch_top leaves for its category (core.py:986-989)
Dump(old, torrents) ==
    IF torrents # <<>> THEN Some([k \in 1..Len(torrents) |-> ToDict(torrents[k])])
    ELSE old

Idle == <<>>

\* fetch_top up to its await: the reload, then one wrapped call per plugin.
\* An exception of the reload escapes fetch_top.
FetchTopStart(category) ==
    /\ fetchPc[category] = Idle
    /\ DoReload
    /\ IF lastReload'[1].raised = None
       THEN /\ fetchPc' = [fetchPc EXCEPT ![category] = Some(plugins')]
            /\ lastFetch' = Nothing
       ELSE /\ fetchPc' = fetchPc
            /\ lastFetch' = Some([category |-> category, outcomes |-> <<>>,
                                  before |-> snapshot[GetId(category)],
                                  raised |-> lastReload'[1].raised])
    /\ topRet' = Nothing
    /\ UNCHANGED <<snapshot, filterCall, cacheVars, extVars>>

\* fetch_top from its await on: every provider call has ended, each as one of
\* the outcomes; the results are flattened and dumped.
FetchTopFinish(category) ==
    /\ fetchPc[category] # Idle
    /\ ~partial[GetId(category)] /\ writing[category] = Nothing
    /\ \E outcomes \in [1..Len(fetchPc[category][1]) -> ProviderOutcomes] :
          LET results == [k \in DOMAIN outcomes |-> PluginMethodWrapper(outcomes[k])]
              torrents == Flatten(results, 1)
          IN  /\ snapshot' = [snapshot EXCEPT ![GetId(category)] = Dump(@, torrents)]
              /\ lastFetch' = Some([category |-> category, outcomes |-> outcomes,
                                    before |-> snapshot[GetId(category)],
                                    raised |-> None])
    /\ fetchPc' = [fetchPc EXCEPT ![category] = Idle]
    /\ topRet' = Nothing
    /\ lastReload' = Nothing
    /\ UNCHANGED <<dirOK, dirFiles, plugins, loads, filterCall, cacheVars, extVars>>

\* one call of top
CallTop(category, filters) ==
    /\ ~partial[GetId(category)]
    /\ topRet' = Some([category |-> category, filters |-> filters,
                       ret |-> Top(category, filters)])
    /\ UNCHANGED <<registryVars, snapshot, fetchPc, lastFetch, filterCall, cacheVars,
                   extVars>>

(***************************************************************************)
(* The resolution cache: TitlesDB.fetch_title_from_torrent.                *)
(***************************************************************************)

\* str(n) for a natural number n
RECURSIVE DecStr(_)
DecStr(n) ==
    LET digit == <<"0", "1", "2", "3", "4", "5", "6", "7", "8", "9">>[(n % 10) + 1]
    IN  IF n < 10 THEN <<digit>> ELSE DecStr(n \div 10) \o <<digit>>

\* GetTorrentKey that leaves the year out
GetTorrentKeyNoYear(torrent) == Lower(torrent.name_info["title"])

\* TitlesDB._get_torrent_key
GetTorrentKey(torrent) ==
    LET k == Lower(torrent.name_info["title"])
    IN  IF "year" \in DOMAIN torrent.name_info
        THEN k \o <<".">> \o DecStr(torrent.name_info["year"])
        ELSE k

\* the listings resolved in the model
CacheTorrents == {T1, T2}
Keys == {GetTorrentKey(t) : t \in CacheTorrents}

\* What the search page of the metadata service may list (SearchParser.results):
\* the service ranks, and may answer the same query differently at another time.
M99 == [id |-> "tt0133093", type |-> "Movie", year |-> 1999]
S99 == [id |-> "tt0000001", type |-> "TV Series", year |-> 1999]
M98 == [id |-> "tt0000002", type |-> "Movie", year |-> 1998]
SearchPages == {<<>>, <<M99>>, <<S99, M99>>, <<M98, M99>>}

\* the year argument of imdb.search: torrent.name_info.get('year')
YearOf(torrent) ==
    IF "year" \in DOMAIN torrent.name_info THEN Some(torrent.name_info["year"])
    ELSE Nothing

\* the list imdb.search returns for a parsed page (imdb.py:452-454)
ImdbSearch(page, title_types, year) ==
    SelectSeq(page, LAMBDA a :
        /\ a.type \in title_types
        /\ (year = Nothing \/ a.year = year[1] \/ a.year = year[1] - 1))

\* The timestamp of the catalog entry of a title: neither IMDBTitle.fetch nor
\* _save_imdb_title records one, and nothing reads imdb_cache_expiracy.
EntryTimestamp(imdb_id) == Nothing

\* values of the setting imdb_cache_expiracy
Expiries == {-1, 0, 1, 24 * 3600}

\* _imdb_title_fetch_and_save: it calls imdb_title.fetch(title_path), and
\* IMDBTitle.fetch (imdb.py:393) takes no argument: the call raises TypeError
\* before any request is made.
ImdbTitleFetchAndSave(imdb_id) == [raised |-> "TypeError", requests |-> 0]

\* fetch_title_from_torrent once _get_title_from_torrent has returned title
\* (an imdb id, or None)
FetchTitleEnd(title) ==
    IF title # None THEN ImdbTitleFetchAndSave(title)
    ELSE [raised |-> None, requests |-> 0]

\* ResolveBranch that does not look the key up in the positive map
ResolveBranchNoLookup(key) ==
    IF key \notin notFound THEN "search" ELSE "notfound"

\* _get_title_from_torrent up to its await, or to its end when it awaits nothing
\* (core.py:457-468): "hit", "notfound" or "search"
ResolveBranch(key) ==
    IF key \in DOMAIN t2i THEN "hit"
    ELSE IF key \notin notFound THEN "search"
    ELSE "notfound"

Resolvers == {"r1", "r2"}
MaxSearches == 2

\* fetch_title_from_torrent(torrent, category) by coroutine r, up to the await of
\* the search or, when no search is made, to its end
StartResolve(r, torrent, category) ==
    LET key == GetTorrentKey(torrent)
        branch == ResolveBranch(key)
        title == IF branch = "hit" THEN t2i[key] ELSE None
        end == FetchTitleEnd(title)
    IN  /\ task[r] = Idle
        /\ IF branch = "search"
           THEN /\ searches[key] < MaxSearches
                /\ searches' = [searches EXCEPT ![key] = @ + 1]
                /\ task' = [task EXCEPT ![r] =
                       Some([torrent |-> torrent, category |-> category, key |-> key,
                             wasCached |-> key \in DOMAIN t2i,
                             wasNotFound |-> key \in notFound])]
                /\ lastResolve' = Nothing
                /\ fetches' = fetches
           ELSE /\ lastResolve' = Some([key |-> key, wasCached |-> key \in DOMAIN t2i,
                       wasNotFound |-> key \in notFound, searched |-> FALSE,
                       results |-> Nothing, title |-> title, requests |-> end.requests,
                       raised |-> end.raised])
                /\ fetches' = fetches + end.requests
                /\ UNCHANGED <<task, searches>>
        /\ UNCHANGED <<t2i, notFound, registryVars, engineVars, filterCall, extVars>>

\* the search of coroutine r returns page: the rest of _get_title_from_torrent
\* (core.py:469-475) and of fetch_title_from_torrent
SearchReturn(r, page) ==
    /\ task[r] # Idle
    /\ LET t == task[r][1]
           results == ImdbSearch(page, t.category.imdb_type, YearOf(t.torrent))
           title == IF Len(results) > 0 THEN results[1].id ELSE None
           end == FetchTitleEnd(title)
       IN  /\ IF Len(results) > 0
              THEN /\ t2i' = (t.key :> results[1].id) @@ t2i
                   /\ notFound' = notFound
              ELSE /\ notFound' = notFound \cup {t.key}
                   /\ t2i' = t2i
           /\ lastResolve' = Some([key |-> t.key, wasCached |-> t.wasCached,
                  wasNotFound |-> t.wasNotFound, searched |-> TRUE,
                  results |-> Some(results),
                  title |-> title, requests |-> end.requests,
                  raised |-> end.raised])
           /\ fetches' = fetches + end.requests
    /\ task' = [task EXCEPT ![r] = Idle]
    /\ UNCHANGED <<searches, registryVars, engineVars, filterCall, extVars>>

\* the request of the search fails: the HTTP error escapes the coroutine
SearchFails(r) ==
    /\ task[r] # Idle
    /\ lastResolve' = Some([key |-> task[r][1].key,
           wasCached |-> task[r][1].wasCached,
           wasNotFound |-> task[r][1].wasNotFound, searched |-> TRUE,
           results |-> Nothing,
           title |-> None, requests |-> 0, raised |-> "HTTPError"])
    /\ task' = [task EXCEPT ![r] = Idle]
    /\ UNCHANGED <<t2i, notFound, searches, fetches, registryVars, engineVars,
                   filterCall, extVars>>

(***************************************************************************)
(* The user-triggered search: TorrentEngine.search.                        *)
(***************************************************************************)

\* self._filter(r) as search calls it (core.py:1061): _filter takes torrents
\* and filters, and the call that gives it one argument raises TypeError
FilterOneArg(r) == [raised |-> "TypeError", value |-> <<>>]

\* the loop of search over the wrapped results (core.py:1059-1061), from the
\* k-th on, with the list torrents gathered so far
RECURSIVE SearchLoop(_, _, _)
SearchLoop(results, k, torrents) ==
    IF k > Len(results) THEN [raised |-> None, torrents |-> torrents]
    ELSE IF results[k] = Nothing THEN SearchLoop(results, k + 1, torrents)
    ELSE LET f == FilterOneArg(results[k][1])
         IN  IF f.raised # None THEN [raised |-> f.raised, torrents |-> torrents]
             ELSE SearchLoop(results, k + 1, torrents \o f.value)

\* search up to its await: the reload, then one wrapped call per plugin
Queries == {"ant", "the matrix"}

SearchStart(query) ==
    /\ searchPc = Idle
    /\ DoReload
    /\ IF lastReload'[1].raised = None
       THEN /\ searchPc' = Some([query |-> query, plugins |-> plugins'])
            /\ lastSearch' = Nothing
       ELSE /\ searchPc' = searchPc
            /\ lastSearch' = Some([query |-> query, outcomes |-> <<>>, ret |-> <<>>,
                                   raised |-> lastReload'[1].raised])
    /\ UNCHANGED <<engineVars, filterCall, cacheVars, beyondSearch>>

\* search from its await on: every provider call has ended, each as one of the
\* outcomes; the results are filtered, merged and sorted
SearchFinish ==
    /\ searchPc # Idle
    /\ \E outcomes \in [1..Len(searchPc[1].plugins) -> ProviderOutcomes] :
          LET results == [k \in DOMAIN outcomes |-> PluginMethodWrapper(outcomes[k])]
              l == SearchLoop(results, 1, <<>>)
          IN  lastSearch' = Some([query |-> searchPc[1].query, outcomes |-> outcomes,
                                  ret |-> IF l.raised = None
                                          THEN SortedBySeeders(l.torrents) ELSE <<>>,
                                  raised |-> l.raised])
    /\ searchPc' = Idle
    /\ lastReload' = Nothing
    /\ UNCHANGED <<dirOK, dirFiles, plugins, loads, engineVars, filterCall, cacheVars,
                   beyondSearch>>

(***************************************************************************)
(* The scheduler: TaskScheduler.run.                                       *)
(***************************************************************************)

Interval == 2       \* the interval of the scheduler, in clock units
MaxDur == 3         \* the longest an iteration lasts (longer than Interval)
MaxStart == 2       \* the latest instant at which run starts
MaxIter == 4        \* iterations of run followed

\* The tasks of one iteration of run (core.py:1085-1088): the statement between
\* the comments is a string literal that holds the calls, so no fetch_top is
\* invoked, no listing resolved, and save_databases is not called.
RunTasks == [fetched |-> {}, resolved |-> FALSE, saved |-> FALSE]

NoTasks == [fetched |-> {}, resolved |-> FALSE, saved |-> FALSE]

\* NextExecution from the current instant
NextExecutionFromNow(next, current) == current + Interval

\* next_execution += self.interval (core.py:1092)
NextExecution(next, current) == next + Interval

\* sleep_interval = next_execution - datetime.datetime.now() (core.py:1094)
SleepInterval(next, current) == next - current

\* run up to its loop: next_execution = datetime.datetime.now()
RunStart ==
    /\ schedPc = "start"
    /\ t0' = now
    /\ next_execution' = now
    /\ schedPc' = "loop"
    /\ UNCHANGED <<now, iter, sleepUntil, tasks, registryVars, engineVars, filterCall,
                   cacheVars, beyondSched>>

\* one iteration of the loop of run, which lasts d: the tasks, the new
\* next_execution, and the gen.sleep it awaits
RunIteration(d) ==
    /\ schedPc = "loop"
    /\ iter < MaxIter
    /\ tasks' = RunTasks
    /\ now' = now + d
    /\ next_execution' = NextExecution(next_execution, now')
    /\ sleepUntil' = now' + SleepInterval(next_execution', now')
    /\ iter' = iter + 1
    /\ schedPc' = "sleeping"
    /\ UNCHANGED <<t0, registryVars, engineVars, filterCall, cacheVars, beyondSched>>

\* gen.sleep returns: at the instant slept until or, when that instant is
\* already past, at once; the loop goes on
RunWake ==
    /\ schedPc = "sleeping"
    /\ now' = IF sleepUntil > now THEN sleepUntil ELSE now
    /\ schedPc' = "loop"
    /\ UNCHANGED <<t0, next_execution, iter, sleepUntil, tasks, registryVars,
                   engineVars, filterCall, cacheVars, beyondSched>>

(***************************************************************************)
(* The tick: TaskScheduler._fetch_top_torrents and                         *)
(* _fetch_torrents_of_category.  tornado.gen.multi starts all its          *)
(* children, waits until every one has ended, and then returns their       *)
(* results or raises the exception of the first child that raised.         *)
(***************************************************************************)

\* the categories in the order of titles_db.get_categories_names()
CategoryList == <<Movies, TVSeries>>

\* How fetch_top may end: it raises what _reload_plugins raises, or returns
\* the listings gathered.
FetchTopOutcomes ==
    {[raised |-> "IndexError", torrents |-> <<>>],
     [raised |-> None, torrents |-> <<>>],
     [raised |-> None, torrents |-> <<T1>>],
     [raised |-> None, torrents |-> <<T1, T3>>]}

\* How fetch_title_from_torrent may end: it returns null (no title found), it
\* raises the TypeError of _imdb_title_fetch_and_save (a title found), or it
\* raises the HTTP error of the search.
ResolveOutcomes == {None, "TypeError", "HTTPError"}

Pending == "pending"

IdlePipe == [stage |-> "idle", ended |-> <<>>, raised |-> None]

\* the exception gen.multi raises for children that ended as the sequence
\* ended: that of the first child that raised, None when none did
FirstRaised(ended) ==
    LET bad == {k \in 1..Len(ended) : ended[k] # None}
    IN  IF bad = {} THEN None
        ELSE ended[CHOOSE k \in bad : \A j \in bad : k <= j]

\* _fetch_top_torrents up to its await: one pipeline per category is started
TickStart ==
    /\ \A c \in Categories : pipe[c].stage = "idle"
    /\ pipe' = [c \in Categories |-> [IdlePipe EXCEPT !.stage = "fetch"]]
    /\ lastTick' = Nothing
    /\ UNCHANGED <<registryVars, engineVars, filterCall, cacheVars, beyondTick>>

\* the fetch_top of the pipeline of category c ends; when it returns listings,
\* one resolve per listing is started
PipeFetchEnd(c, outcome) ==
    /\ pipe[c].stage = "fetch"
    /\ pipe' = [pipe EXCEPT ![c] =
          IF outcome.raised # None
          THEN [stage |-> "raised", ended |-> <<>>, raised |-> outcome.raised]
          ELSE IF outcome.torrents = <<>>
          THEN [stage |-> "done", ended |-> <<>>, raised |-> None]
          ELSE [stage |-> "resolve",
                ended |-> [k \in 1..Len(outcome.torrents) |-> Pending],
                raised |-> None]]
    /\ UNCHANGED <<lastTick, registryVars, engineVars, filterCall, cacheVars,
                   beyondTick>>

\* the resolve of the k-th listing of category c ends; when it is the last one
\* to end, the gen.multi of the pipeline returns or raises
PipeResolveEnd(c, k, outcome) ==
    /\ pipe[c].stage = "resolve"
    /\ k \in 1..Len(pipe[c].ended)
    /\ pipe[c].ended[k] = Pending
    /\ LET ended == [pipe[c].ended EXCEPT ![k] = outcome]
       IN  pipe' = [pipe EXCEPT ![c] =
              IF \E j \in 1..Len(ended) : ended[j] = Pending
              THEN [@ EXCEPT !.ended = ended]
              ELSE [stage |-> IF FirstRaised(ended) = None THEN "done" ELSE "raised",
                    ended |-> ended, raised |-> FirstRaised(ended)]]
    /\ UNCHANGED <<lastTick, registryVars, engineVars, filterCall, cacheVars,
                   beyondTick>>

\* every pipeline has ended: the gen.multi of _fetch_top_torrents returns or
\* raises, and _fetch_top_torrents, which catches nothing, with it
TickEnd ==
    /\ \A c \in Categories : pipe[c].stage \in {"done", "raised"}
    /\ lastTick' = Some([pipes |-> pipe,
          raised |-> FirstRaised([k \in 1..Len(CategoryList) |->
                                     pipe[CategoryList[k]].raised])])
    /\ pipe' = [c \in Categories |-> IdlePipe]
    /\ UNCHANGED <<registryVars, engineVars, filterCall, cacheVars, beyondTick>>

(***************************************************************************)
(* Persistence of the resolution cache: json.dumps / json.loads on the two  *)
(* cache files, save_databases, and the loads of TitlesDB.__init__.         *)
(* A file content is the sequence of its characters.                        *)
(***************************************************************************)

\* EscapeChar that writes every character as it is
EscapeCharRaw(c) == <<c>>

\* json.dumps of one character of a str (ensure_ascii is on): the quote and
\* the backslash are escaped, a character that is not ASCII becomes \uXXXX
EscapeChar(c) ==
    IF c = "\"" THEN <<"\\", "\"">>
    ELSE IF c = "\\" THEN <<"\\", "\\">>
    ELSE IF c = "e'" THEN <<"\\", "u", "0", "0", "e", "9">>
    ELSE <<c>>

RECURSIVE EscapeStr(_)
EscapeStr(s) ==
    IF s = <<>> THEN <<>> ELSE EscapeChar(Head(s)) \o EscapeStr(Tail(s))

\* json.dumps of a str
DumpsStr(s) == <<"\"">> \o EscapeStr(s) \o <<"\"">>

\* ', '.join(items)
RECURSIVE Join(_)
Join(items) ==
    IF items = <<>> THEN <<>>
    ELSE IF Len(items) = 1 THEN items[1]
    ELSE items[1] \o <<",", " ">> \o Join(Tail(items))

\* json.dumps of a dict of str to str whose items are, in order, pairs
DumpsDict(pairs) ==
    <<"{">>
    \o Join([k \in 1..Len(pairs) |->
                DumpsStr(pairs[k][1]) \o <<":", " ">> \o DumpsStr(pairs[k][2])])
    \o <<"}">>

\* json.dumps of a list of str
DumpsList(l) ==
    <<"[">> \o Join([k \in 1..Len(l) |-> DumpsStr(l[k])]) \o <<"]">>

\* the result of a parse that fails (json.JSONDecodeError, a ValueError)
ParseFail == [ok |-> FALSE, val |-> <<>>, next |-> 0]

\* the JSON string scanner from position i, after the opening quote, with the
\* characters acc decoded so far
RECURSIVE ScanStr(_, _, _)
ScanStr(text, i, acc) ==
    IF i > Len(text) THEN ParseFail
    ELSE IF text[i] = "\"" THEN [ok |-> TRUE, val |-> acc, next |-> i + 1]
    ELSE IF text[i] = "\\"
    THEN IF i + 1 > Len(text) THEN ParseFail
         ELSE IF text[i + 1] \in {"\"", "\\"}
         THEN ScanStr(text, i + 2, Append(acc, text[i + 1]))
         ELSE IF /\ text[i + 1] = "u"
                 /\ i + 5 <= Len(text)
                 /\ SubSeq(text, i + 2, i + 5) = <<"0", "0", "e", "9">>
         THEN ScanStr(text, i + 6, Append(acc, "e'"))
         ELSE ParseFail
    ELSE ScanStr(text, i + 1, Append(acc, text[i]))

\* a JSON string at position i
ParseStr(text, i) ==
    IF i <= Len(text) /\ text[i] = "\"" THEN ScanStr(text, i + 1, <<>>)
    ELSE ParseFail

\* the position of the first character from i on that is not a space
RECURSIVE SkipWs(_, _)
SkipWs(text, i) ==
    IF i <= Len(text) /\ text[i] = " " THEN SkipWs(text, i + 1) ELSE i

\* text holds character c at position i
At(text, i, c) == i <= Len(text) /\ text[i] = c

\* the members of a JSON object from position i on, acc being the dict so far
RECURSIVE ParseMembers(_, _, _)
ParseMembers(text, i, acc) ==
    LET k == ParseStr(text, SkipWs(text, i))
        colon == SkipWs(text, k.next)
        v == ParseStr(text, SkipWs(text, colon + 1))
        after == SkipWs(text, v.next)
    IN  IF ~k.ok THEN ParseFail
        ELSE IF ~At(text, colon, ":") THEN ParseFail
        ELSE IF ~v.ok THEN ParseFail
        ELSE IF At(text, after, ",")
        THEN ParseMembers(text, after + 1, (k.val :> v.val) @@ acc)
        ELSE IF At(text, after, "}")
        THEN [ok |-> TRUE, val |-> (k.val :> v.val) @@ acc, next |-> after + 1]
        ELSE ParseFail

\* the elements of a JSON array from position i on, acc being the list so far
RECURSIVE ParseElements(_, _, _)
ParseElements(text, i, acc) ==
    LET v == ParseStr(text, SkipWs(text, i))
        after == SkipWs(text, v.next)
    IN  IF ~v.ok THEN ParseFail
        ELSE IF At(text, after, ",")
        THEN ParseElements(text, after + 1, Append(acc, v.val))
        ELSE IF At(text, after, "]")
        THEN [ok |-> TRUE, val |-> Append(acc, v.val), next |-> after + 1]
        ELSE ParseFail

\* a parse that ends before the end of the text fails ("Extra data")
WholeText(text, p) ==
    IF p.ok /\ SkipWs(text, p.next) > Len(text) THEN p ELSE ParseFail

\* json.loads of the text of an object of strings
LoadsDict(text) ==
    LET i == SkipWs(text, 1)
        j == SkipWs(text, i + 1)
    IN  IF ~At(text, i, "{") THEN ParseFail
        ELSE IF At(text, j, "}")
        THEN WholeText(text, [ok |-> TRUE, val |-> <<>>, next |-> j + 1])
        ELSE WholeText(text, ParseMembers(text, i + 1, <<>>))

\* json.loads of the text of an array of strings
LoadsList(text) ==
    LET i == SkipWs(text, 1)
        j == SkipWs(text, i + 1)
    IN  IF ~At(text, i, "[") THEN ParseFail
        ELSE IF At(text, j, "]")
        THEN WholeText(text, [ok |-> TRUE, val |-> <<>>, next |-> j + 1])
        ELSE WholeText(text, ParseElements(text, i + 1, <<>>))

\* the sequences that list the elements of the finite set S, each once
Orders(S) ==
    {o \in [1..Cardinality(S) -> S] : \A i, j \in 1..Cardinality(S) : o[i] = o[j] => i = j}

\* the text _save_torrents_to_imdb writes, the items of the dict in order o
T2IText(d, o) == DumpsDict([k \in 1..Len(o) |-> <<o[k], d[o[k]]>>])

\* the text _save_titles_not_found writes, list(set) being o
NotFoundText(o) == DumpsList(o)

\* _load_torrents_to_imdb: no file (IOError) gives the empty dict; a text that
\* json.loads rejects raises ValueError, which is not caught
LoadTorrentsToImdb(file) ==
    IF file = NoFile THEN [raised |-> None, val |-> <<>>]
    ELSE LET p == LoadsDict(file[1])
         IN  IF p.ok THEN [raised |-> None, val |-> p.val]
             ELSE [raised |-> "ValueError", val |-> <<>>]

\* _load_titles_not_found
LoadTitlesNotFound(file) ==
    IF file = NoFile THEN [raised |-> None, val |-> {}]
    ELSE LET p == LoadsList(file[1])
         IN  IF p.ok THEN [raised |-> None, val |-> {p.val[k] : k \in 1..Len(p.val)}]
             ELSE [raised |-> "ValueError", val |-> {}]

\* TitlesDB.__init__: the two loads, the second not reached when the first
\* raises
NewTitlesDB(f1, f2) ==
    LET a == LoadTorrentsToImdb(f1)
        b == LoadTitlesNotFound(f2)
    IN  IF a.raised # None THEN [raised |-> a.raised, t2i |-> <<>>, notFound |-> {}]
        ELSE IF b.raised # None THEN [raised |-> b.raised, t2i |-> a.val, notFound |-> {}]
        ELSE [raised |-> None, t2i |-> a.val, notFound |-> b.val]

\* keys and ids of the persistence model: a key with a character that is not
\* ASCII and a year, a key with a quote and a backslash
PKey1 == <<"e'", ".", "1">>
PKey2 == <<"a", "\"", "\\">>
PKeys == {PKey1, PKey2}
PIds == {<<"t", "t", "1">>, <<"t", "t", "2">>}

\* the two mutations of _get_title_from_torrent (core.py:469 and 474)
AddTitle(key, id) ==
    /\ phase = "running"
    /\ t2i' = (key :> id) @@ t2i
    /\ lastSave' = Nothing /\ lastLoad' = Nothing
    /\ UNCHANGED <<notFound, fileT2I, fileNF, phase, registryVars, engineVars, filterCall,
                   task, lastResolve, searches, fetches, beyondPersist>>

AddNotFound(key) ==
    /\ phase = "running"
    /\ notFound' = notFound \cup {key}
    /\ lastSave' = Nothing /\ lastLoad' = Nothing
    /\ UNCHANGED <<t2i, fileT2I, fileNF, phase, registryVars, engineVars, filterCall,
                   task, lastResolve, searches, fetches, beyondPersist>>

\* save_databases, each open(..., 'w') succeeding or raising IOError: the
\* first IOError escapes, and the second file is not written
SaveDatabases(w1, w2) ==
    /\ phase = "running"
    /\ \E o1 \in Orders(DOMAIN t2i), o2 \in Orders(notFound) :
          /\ fileT2I' = IF w1 THEN Some(T2IText(t2i, o1)) ELSE fileT2I
          /\ fileNF' = IF w1 /\ w2 THEN Some(NotFoundText(o2)) ELSE fileNF
    /\ lastSave' = Some([writable |-> w1 /\ w2,
                         raised |-> IF w1 /\ w2 THEN None ELSE "IOError"])
    /\ lastLoad' = Nothing
    /\ UNCHANGED <<t2i, notFound, phase, registryVars, engineVars, filterCall,
                   task, lastResolve, searches, fetches, beyondPersist>>

\* the proper prefixes of a text
Prefixes(text) == {SubSeq(text, 1, n) : n \in 0..(Len(text) - 1)}

\* the process stops during save_databases: in the first write (the file is
\* truncated and holds a prefix of the text), between the two writes, or in
\* the second write
StopDuringSave ==
    /\ phase = "running"
    /\ \E o1 \in Orders(DOMAIN t2i), o2 \in Orders(notFound) :
          \/ /\ fileT2I' \in {Some(p) : p \in Prefixes(T2IText(t2i, o1))}
             /\ fileNF' = fileNF
          \/ /\ fileT2I' = Some(T2IText(t2i, o1))
             /\ fileNF' = fileNF
          \/ /\ fileT2I' = Some(T2IText(t2i, o1))
             /\ fileNF' \in {Some(p) : p \in Prefixes(NotFoundText(o2))}
    /\ phase' = "stopped"
    /\ lastSave' = Nothing /\ lastLoad' = Nothing
    /\ UNCHANGED <<t2i, notFound, registryVars, engineVars, filterCall,
                   task, lastResolve, searches, fetches, beyondPersist>>

\* a new TitlesDB is constructed on the files (after a stop: the next start);
\* t2i and notFound stay what the memory was before
Start ==
    /\ lastLoad = Nothing
    /\ lastLoad' = Some(NewTitlesDB(fileT2I, fileNF))
    /\ phase' = IF phase = "stopped" THEN "restarted" ELSE phase
    /\ UNCHANGED <<t2i, notFound, fileT2I, fileNF, lastSave, registryVars, engineVars, filterCall,
                   task, lastResolve, searches, fetches, beyondPersist>>

(***************************************************************************)
(* The provider request loop: _request of plugins/thepiratebay.py.         *)
(***************************************************************************)

MaxAttempts == 3    \* requests of one _request call followed

Urls == {"https://a/top", "https://b/top"}

\* What http_client.fetch may do: return a response, raise HTTPError with a
\* code (for 429, with the Retry-After header the server sent, if any: the
\* header is optional and may hold seconds or an HTTP date), or raise an
\* error that is no HTTPError.
OkResponse == [kind |-> "response", code |-> 200, retry_after |-> Nothing]
HTTPError(code, retry_after) ==
    [kind |-> "HTTPError", code |-> code, retry_after |-> retry_after]
OtherError == [kind |-> "OSError", code |-> 0, retry_after |-> Nothing]
FetchOutcomes ==
    {OkResponse, OtherError, HTTPError(500, Nothing),
     HTTPError(429, Some("0")), HTTPError(429, Some("1")), HTTPError(429, Some("2")),
     HTTPError(429, Nothing),
     HTTPError(429, Some("Wed, 21 Oct 2015 07:28:00 GMT"))}

\* int(s) for the header values of the model: Nothing when int raises ValueError
IntOf(s) ==
    CASE s = "0" -> Some(0) [] s = "1" -> Some(1) [] s = "2" -> Some(2)
      [] OTHER -> Nothing

\* The except clause of _request for HTTPError e (thepiratebay.py:186-190):
\* the exception it raises (None when it goes to sleep) and the sleep
RateLimitWait(e) ==
    IF e.code # 429 THEN [raised |-> "HTTPError", wait |-> 0]
    ELSE IF e.retry_after = Nothing THEN [raised |-> "KeyError", wait |-> 0]
    ELSE IF IntOf(e.retry_after[1]) = Nothing THEN [raised |-> "ValueError", wait |-> 0]
    ELSE [raised |-> None, wait |-> IntOf(e.retry_after[1])[1]]

\* _request(http_client, url) up to its first fetch
RequestStart(url) ==
    /\ reqPc = "idle"
    /\ reqPc' = "fetching"
    /\ reqUrl' = url
    /\ attempts' = 1
    /\ UNCHANGED <<wait>>
    /\ waited' = 0
    /\ lastResp' = Nothing
    /\ lastRequest' = Nothing
    /\ UNCHANGED <<registryVars, engineVars, filterCall, cacheVars, beyondRequest>>

\* the fetch ends as outcome o: _request returns the response, raises, or
\* goes to sleep
FetchEnds(o) ==
    /\ reqPc = "fetching"
    /\ lastResp' = Some(o)
    /\ LET h == IF o.kind = "HTTPError" THEN RateLimitWait(o)
                ELSE [raised |-> IF o.kind = "response" THEN None ELSE o.kind,
                      wait |-> 0]
       IN  IF o.kind = "HTTPError" /\ h.raised = None
           THEN /\ reqPc' = "sleeping"
                /\ wait' = h.wait
                /\ lastRequest' = Nothing
           ELSE /\ reqPc' = "idle"
                /\ wait' = wait
                /\ lastRequest' = Some([url |-> reqUrl, requests |-> attempts,
                                        raised |-> h.raised, waited |-> waited,
                                        result |-> o])
    /\ UNCHANGED <<reqUrl, attempts, waited>>
    /\ UNCHANGED <<registryVars, engineVars, filterCall, cacheVars, beyondRequest>>

\* the sleep ends: the loop fetches the same url again
SleepEnds ==
    /\ reqPc = "sleeping"
    /\ attempts < MaxAttempts
    /\ reqPc' = "fetching"
    /\ attempts' = attempts + 1
    /\ waited' = waited + wait
    /\ lastResp' = Nothing
    /\ UNCHANGED <<reqUrl, wait, lastRequest>>
    /\ UNCHANGED <<registryVars, engineVars, filterCall, cacheVars, beyondRequest>>

(***************************************************************************)
(* An aggregate call and its provider calls: the gen.multi of fetch_top    *)
(* and of search, each provider call ending, never ending, or kept in the  *)
(* rate-limit loop of its _request.                                        *)
(***************************************************************************)

\* What the site of a provider does during one aggregate call: it answers,
\* it never answers, or it answers 429 with a Retry-After to every request.
Natures == {"answers", "hangs", "limited"}

\* how the call of a provider that answers may end
AggOutcomes == {Raises, Returns(Nothing), Returns(Some(<<T4>>))}

\* the query of a search, a string as a sequence of characters
AggQueries == {<<"a", "n", "t">>}

\* a wrapped call just created by the list comprehension of the aggregate
NewCall(nature) == [pc |-> "running", nature |-> nature, result |-> Nothing]

\* the aggregate up to its await: the reload, then one wrapped call per plugin
\* handed to gen.multi.  An exception of the reload escapes the aggregate.
AggStart(op, arg) ==
    /\ aggPc # "waiting"
    /\ DoReload
    /\ aggOp' = op /\ aggArg' = arg
    /\ IF lastReload'[1].raised = None
       THEN /\ aggPc' = "waiting"
            /\ calls' \in [1..Len(plugins') -> {NewCall(n) : n \in Natures}]
            /\ aggRet' = Nothing
       ELSE /\ aggPc' = "done"
            /\ calls' = <<>>
            /\ aggRet' = Some([raised |-> lastReload'[1].raised, ret |-> <<>>])
    /\ UNCHANGED <<engineVars, filterCall, cacheVars, beyondAggregate>>

\* _plugin_method_wrapper: the awaited method of plugin k ends
CallEnds(k, outcome) ==
    /\ aggPc = "waiting"
    /\ k \in DOMAIN calls
    /\ calls[k].pc = "running" /\ calls[k].nature = "answers"
    /\ calls' = [calls EXCEPT ![k] = [@ EXCEPT !.pc = "ended",
                                       !.result = PluginMethodWrapper(outcome)]]
    /\ UNCHANGED <<aggPc, aggOp, aggArg, aggRet, registryVars, engineVars, filterCall,
                   cacheVars, beyondAggregate>>

\* the request of plugin k is answered 429: its _request sleeps Retry-After
CallRateLimited(k) ==
    /\ aggPc = "waiting"
    /\ k \in DOMAIN calls
    /\ calls[k].pc = "running" /\ calls[k].nature = "limited"
    /\ calls' = [calls EXCEPT ![k] = [@ EXCEPT !.pc = "sleeping"]]
    /\ UNCHANGED <<aggPc, aggOp, aggArg, aggRet, registryVars, engineVars, filterCall,
                   cacheVars, beyondAggregate>>

\* the sleep of the _request of plugin k ends: the loop fetches again
CallRetries(k) ==
    /\ aggPc = "waiting"
    /\ k \in DOMAIN calls
    /\ calls[k].pc = "sleeping"
    /\ calls' = [calls EXCEPT ![k] = [@ EXCEPT !.pc = "running"]]
    /\ UNCHANGED <<aggPc, aggOp, aggArg, aggRet, registryVars, engineVars, filterCall,
                   cacheVars, beyondAggregate>>

\* gen.multi resumes the aggregate once every wrapped call has ended: fetch_top
\* flattens and dumps, search filters, merges and sorts
AggFinish ==
    /\ aggPc = "waiting"
    /\ \A k \in DOMAIN calls : calls[k].pc = "ended"
    /\ LET results == [k \in DOMAIN calls |-> calls[k].result]
           l == SearchLoop(results, 1, <<>>)
       IN  IF aggOp = "fetch_top"
           THEN /\ snapshot' = [snapshot EXCEPT ![aggArg] = Dump(@, Flatten(results, 1))]
                /\ aggRet' = Some([raised |-> None, ret |-> Flatten(results, 1)])
           ELSE /\ snapshot' = snapshot
                /\ aggRet' = Some([raised |-> l.raised,
                                   ret |-> IF l.raised = None
                                           THEN SortedBySeeders(l.torrents) ELSE <<>>])
    /\ aggPc' = "done"
    /\ lastReload' = Nothing
    /\ UNCHANGED <<aggOp, aggArg, calls, dirOK, dirFiles, plugins, loads, fetchPc,
                   lastFetch, topRet, filterCall, cacheVars, beyondAggregate>>

(***************************************************************************)
(* The overwrite of a snapshot file by fetch_top, step by step, and the    *)
(* readers of the file.  open(filename, 'w') truncates the file in place;  *)
(* until the text is written and the file closed, the file holds a proper  *)
(* prefix of the text.                                                     *)
(***************************************************************************)

\* json.loads of a proper prefix of the text of a non-empty JSON array: the
\* closing bracket is missing, json raises JSONDecodeError (a ValueError),
\* which the except IOError of top (core.py:930) does not catch
TopOnFile(torn, category, filters) ==
    IF torn THEN [raised |-> "ValueError", ret |-> <<>>]
    ELSE [raised |-> None, ret |-> Top(category, filters)]

\* fetch_top from its await to the open of the file (core.py:980-987): every
\* provider call has ended; with no listing gathered nothing is written and
\* fetch_top returns
OverwriteBegin(category) ==
    /\ fetchPc[category] # Idle
    /\ writing[category] = Nothing
    /\ \E outcomes \in [1..Len(fetchPc[category][1]) -> ProviderOutcomes] :
          LET results == [k \in DOMAIN outcomes |-> PluginMethodWrapper(outcomes[k])]
              torrents == Flatten(results, 1)
          IN  IF torrents = <<>>
              THEN /\ lastFetch' = Some([category |-> category, outcomes |-> outcomes,
                                         before |-> snapshot[GetId(category)],
                                         raised |-> None])
                   /\ fetchPc' = [fetchPc EXCEPT ![category] = Idle]
                   /\ UNCHANGED <<partial, writing>>
              ELSE /\ partial' = [partial EXCEPT ![GetId(category)] = TRUE]
                   /\ writing' = [writing EXCEPT ![category] =
                                     Some([outcomes |-> outcomes, torrents |-> torrents])]
                   /\ UNCHANGED <<lastFetch, fetchPc>>
    /\ topRet' = Nothing /\ topRead' = Nothing
    /\ lastReload' = Nothing
    /\ UNCHANGED <<snapshot, dirOK, dirFiles, plugins, loads, filterCall, cacheVars,
                   beyondOverwrite>>

\* the write and the close succeed (core.py:988-990)
OverwriteEnd(category) ==
    /\ writing[category] # Nothing
    /\ snapshot' = [snapshot EXCEPT ![GetId(category)] =
                       Dump(@, writing[category][1].torrents)]
    /\ partial' = [partial EXCEPT ![GetId(category)] = FALSE]
    /\ writing' = [writing EXCEPT ![category] = Nothing]
    /\ fetchPc' = [fetchPc EXCEPT ![category] = Idle]
    /\ lastFetch' = Some([category |-> category,
                          outcomes |-> writing[category][1].outcomes,
                          before |-> snapshot[GetId(category)], raised |-> None])
    /\ topRet' = Nothing /\ topRead' = Nothing
    /\ UNCHANGED <<registryVars, filterCall, cacheVars, beyondOverwrite>>

\* the write or the close raises IOError (no space left on the device): the
\* exception escapes fetch_top and the file stays truncated
OverwriteFails(category) ==
    /\ writing[category] # Nothing
    /\ writing' = [writing EXCEPT ![category] = Nothing]
    /\ fetchPc' = [fetchPc EXCEPT ![category] = Idle]
    /\ lastFetch' = Some([category |-> category,
                          outcomes |-> writing[category][1].outcomes,
                          before |-> snapshot[GetId(category)], raised |-> "IOError"])
    /\ topRet' = Nothing /\ topRead' = Nothing
    /\ UNCHANGED <<snapshot, partial, registryVars, filterCall, cacheVars,
                   beyondOverwrite>>

\* top() called by a reader of the snapshot files, at any moment
ReadTop(category, filters) ==
    /\ topRead' = Some([category |-> category, filters |-> filters,
                        during |-> writing[category] # Nothing,
                        old |-> Top(category, filters),
                        new |-> IF writing[category] = Nothing THEN <<>>
                                ELSE SortedBySeeders(Filter(
                                         writing[category][1].torrents, filters)),
                        end |-> TopOnFile(partial[GetId(category)], category, filters)])
    /\ UNCHANGED <<partial, writing, registryVars, engineVars, filterCall, cacheVars,
                   beyondOverwrite>>

(***************************************************************************)
(* The profiles: ProfilesManager.                                          *)
(***************************************************************************)

\* profile names, strings as sequences of characters
Fistro == <<"f", "i", "s", "t", "r", "o">>
Pecador == <<"p", "e", "c", "a", "d", "o", "r">>
ProfileNames == {Fistro, Pecador}

\* the file profiles.json: absent, holding the JSON list of the profiles, or
\* truncated (a proper prefix of a text)
AbsentFile == [state |-> "absent", names |-> <<>>]
WholeFile(names) == [state |-> "whole", names |-> names]
TornFile == [state |-> "torn", names |-> <<>>]

\* the names in the sequence l
Range(l) == {l[k] : k \in DOMAIN l}

\* del d[name] on the insertion-ordered dict
Without(l, name) == SelectSeq(l, LAMBDA n : n # name)

\* What the environment does to a write of a file: the open succeeds and so
\* does the write; the open raises IOError (no permission); the open
\* truncates the file and the write or the close raises IOError (no space).
WriteFaults == {"ok", "open_fails", "write_fails"}

\* the pictures received: none, one that PIL decodes, one that it does not
NoPicture == "None"
Pictures == {NoPicture, "png", "undecodable"}

\* ProfilesManager._save: the IOError of the open or of the write is caught
\* and logged
Save(file, names, fault) ==
    IF fault = "ok" THEN [raised |-> None, file |-> WholeFile(names)]
    ELSE IF fault = "open_fails" THEN [raised |-> None, file |-> file]
    ELSE [raised |-> None, file |-> TornFile]

\* _save_profile_picture: PIL.Image.open raising IOError, then pic.save
\* raising IOError (picOk false: the directory cannot be written)
SaveProfilePicture(pics, name, picture, picOk) ==
    IF picture = "undecodable" THEN [raised |-> "IOError", pictures |-> pics]
    ELSE IF ~picOk THEN [raised |-> "IOError", pictures |-> pics]
    ELSE [raised |-> None, pictures |-> pics \cup {name}]

\* create_profile that registers the profile before it saves the picture
CreateEager(ps, pics, file, name, picture, picOk, fault) ==
    IF name \in Range(ps)
    THEN [raised |-> "ValueError", profiles |-> ps, pictures |-> pics, file |-> file]
    ELSE LET sp == IF picture # NoPicture
                   THEN SaveProfilePicture(pics, name, picture, picOk)
                   ELSE [raised |-> None, pictures |-> pics]
             sv == Save(file, Append(ps, name), fault)
         IN  IF sp.raised # None
             THEN [raised |-> sp.raised, profiles |-> Append(ps, name),
                   pictures |-> pics, file |-> file]
             ELSE [raised |-> sv.raised, profiles |-> Append(ps, name),
                   pictures |-> sp.pictures, file |-> sv.file]

\* ProfilesManager.create_profile
Create(ps, pics, file, name, picture, picOk, fault) ==
    IF name \in Range(ps)
    THEN [raised |-> "ValueError", profiles |-> ps, pictures |-> pics, file |-> file]
    ELSE LET sp == IF picture # NoPicture
                   THEN SaveProfilePicture(pics, name, picture, picOk)
                   ELSE [raised |-> None, pictures |-> pics]
             sv == Save(file, Append(ps, name), fault)
         IN  IF sp.raised # None
             THEN [raised |-> sp.raised, profiles |-> ps, pictures |-> pics,
                   file |-> file]
             ELSE [raised |-> sv.raised, profiles |-> Append(ps, name),
                   pictures |-> sp.pictures, file |-> sv.file]

\* os.unlink of the picture of name inside try ... except OSError: pass; the
\* unlink is refused (picOk false) when the directory cannot be written
Unlink(pics, name, picOk) == IF picOk THEN pics \ {name} ELSE pics

\* ProfilesManager.delete_profile: the picture is unlinked first, then the
\* entry deleted, then the file saved
Delete(ps, pics, file, name, picOk, fault) ==
    IF name \notin Range(ps)
    THEN [raised |-> "KeyError", profiles |-> ps, pictures |-> Unlink(pics, name, picOk),
          file |-> file]
    ELSE LET sv == Save(file, Without(ps, name), fault)
         IN  [raised |-> sv.raised, profiles |-> Without(ps, name),
              pictures |-> Unlink(pics, name, picOk), file |-> sv.file]

\* ProfilesManager.set_profile_picture
SetPicture(ps, pics, file, name, picture, picOk) ==
    IF name \notin Range(ps)
    THEN [raised |-> "KeyError", profiles |-> ps, pictures |-> pics, file |-> file]
    ELSE IF picture = NoPicture
    THEN [raised |-> None, profiles |-> ps, pictures |-> Unlink(pics, name, picOk),
          file |-> file]
    ELSE LET sp == SaveProfilePicture(pics, name, picture, picOk)
         IN  [raised |-> sp.raised, profiles |-> ps, pictures |-> sp.pictures,
              file |-> file]

\* ProfilesManager.get_profile_picture
GetPicture(ps, pics, file, name) ==
    [raised |-> IF name \notin Range(ps) THEN "KeyError" ELSE None,
     profiles |-> ps, pictures |-> pics, file |-> file]

\* ProfilesManager.get_profiles: the names, sorted
GetProfiles(ps) == SortedStrs(Range(ps))

\* one profile operation has run and ended as end
ProfileOp(op, name, picture, picOk, fault, end) ==
    /\ profiles' = end.profiles
    /\ pictures' = end.pictures
    /\ profilesFile' = end.file
    /\ lastOp' = Some([op |-> op, name |-> name, picture |-> picture, picOk |-> picOk,
                       fault |-> fault, raised |-> end.raised, before |-> profiles,
                       fileBefore |-> profilesFile])
    /\ UNCHANGED <<registryVars, engineVars, filterCall, cacheVars, beyondProfiles>>

CreateProfile(name, picture, picOk, fault) ==
    ProfileOp("create_profile", name, picture, picOk, fault,
              Create(profiles, pictures, profilesFile, name, picture, picOk, fault))

DeleteProfile(name, picOk, fault) ==
    ProfileOp("delete_profile", name, NoPicture, picOk, fault,
              Delete(profiles, pictures, profilesFile, name, picOk, fault))

SetProfilePicture(name, picture, picOk) ==
    ProfileOp("set_profile_picture", name, picture, picOk, "ok",
              SetPicture(profiles, pictures, profilesFile, name, picture, picOk))

GetProfilePicture(name) ==
    ProfileOp("get_profile_picture", name, NoPicture, TRUE, "ok",
              GetPicture(profiles, pictures, profilesFile, name))

(***************************************************************************)
(* From listings to medias: TitlesDB.get_medias_from_torrents, Title,      *)
(* TVSerie, Movie; and Core.top.                                           *)
(***************************************************************************)

CatalogIds == {"tt0133093", "tt0000001"}

\* Catalog entries (the attributes json.loads reads from db.json): a movie,
\* and a series whose season 1 has the episodes 1 and 2.  The keys of the
\* nested season and episode maps are strings.
MovieEntry == [type |-> "Movie"]
SeriesEntry ==
    [type |-> "TV Series", seasons |-> (DecStr(1) :> {DecStr(1), DecStr(2)})]
MiniSeriesEntry ==
    [type |-> "TV Mini-Series", seasons |-> (DecStr(1) :> {DecStr(1)})]
CatalogEntries == {MovieEntry, SeriesEntry, MiniSeriesEntry}

\* Movie.TYPES
MovieTYPES == {"Movie"}

\* _get_title_from_torrent_cached: the Title of the listing, None (Nothing)
\* when its key is not in the positive map or when db.json cannot be opened
\* (get_title turns the IOError into the KeyError that is caught)
GetTitleFromTorrentCached(torrent) ==
    LET key == GetTorrentKey(torrent)
    IN  IF key \notin DOMAIN t2i THEN Nothing
        ELSE IF catalog[t2i[key]] = NoFile THEN Nothing
        ELSE Some([id |-> t2i[key], attrs |-> catalog[t2i[key]][1]])

\* a media: a title (season and episode Nothing) or an episode of it
TitleMedia(title) == [id |-> title.id, season |-> Nothing, episode |-> Nothing]
Episode(title, season, episode) ==
    [id |-> title.id, season |-> Some(season), episode |-> Some(episode)]

\* TVSerie.get_media that takes season 1, episode 1 when the listing shows none
TVSerieGetMediaLenient(title, torrent) ==
    LET info == torrent.name_info
        season == IF "season" \in DOMAIN info THEN info["season"] ELSE 1
        episode == IF "episode" \in DOMAIN info THEN info["episode"] ELSE 1
    IN  IF "seasons" \notin DOMAIN title.attrs THEN Nothing
        ELSE IF DecStr(season) \notin DOMAIN title.attrs.seasons THEN Nothing
        ELSE IF DecStr(episode) \notin title.attrs.seasons[DecStr(season)] THEN Nothing
        ELSE Some(Episode(title, season, episode))

\* TVSerie.get_media: every KeyError (no season, no episode, not in the
\* catalog entry) gives None
TVSerieGetMedia(title, torrent) ==
    LET info == torrent.name_info
    IN  IF "season" \notin DOMAIN info THEN Nothing
        ELSE IF "episode" \notin DOMAIN info THEN Nothing
        ELSE IF "seasons" \notin DOMAIN title.attrs THEN Nothing
        ELSE IF DecStr(info["season"]) \notin DOMAIN title.attrs.seasons THEN Nothing
        ELSE IF DecStr(info["episode"]) \notin title.attrs.seasons[DecStr(info["season"])]
             THEN Nothing
        ELSE Some(Episode(title, info["season"], info["episode"]))

\* Movie.get_media
MovieGetMedia(title, torrent) == Some(TitleMedia(title))

\* Title.get_media: Title.__init__ chose Movie when the type of the entry is in
\* Movie.TYPES, TVSerie otherwise
GetMedia(title, torrent) ==
    IF title.attrs.type \in MovieTYPES THEN MovieGetMedia(title, torrent)
    ELSE TVSerieGetMedia(title, torrent)

\* FinalMedias that removes the null medias only
RECURSIVE FinalMediasKeepRepeated(_, _, _)
FinalMediasKeepRepeated(medias, k, final) ==
    IF k > Len(medias) THEN final
    ELSE IF medias[k] # Nothing
         THEN FinalMediasKeepRepeated(medias, k + 1, Append(final, medias[k][1]))
         ELSE FinalMediasKeepRepeated(medias, k + 1, final)

\* the loop that removes the null and the repeated medias, keeping the order
RECURSIVE FinalMedias(_, _, _)
FinalMedias(medias, k, final) ==
    IF k > Len(medias) THEN final
    ELSE IF medias[k] # Nothing /\ \A j \in DOMAIN final : final[j] # medias[k][1]
         THEN FinalMedias(medias, k + 1, Append(final, medias[k][1]))
         ELSE FinalMedias(medias, k + 1, final)

\* TitlesDB.get_medias_from_torrents
GetMediasFromTorrents(torrents) ==
    LET titles == [k \in DOMAIN torrents |-> GetTitleFromTorrentCached(torrents[k])]
        medias == [k \in DOMAIN torrents |->
                      IF titles[k] = Nothing THEN Nothing
                      ELSE GetMedia(titles[k][1], torrents[k])]
    IN  FinalMedias(medias, 1, <<>>)

\* Listings of the medias model, by their derived attributes: a film with its
\* year; the series "Ant" with season and episode, with an episode the
\* catalog does not list, with a season only, with an episode only, with none
Derived(name, info) ==
    [name |-> name, magnet |-> None, size |-> None, seeders |-> 0, leechers |-> 0,
     name_info |-> info]
L_Film == Derived("The.Matrix.1999", [title |-> TheMatrix, year |-> 1999])
L_S1E2 == Derived("Ant.S01E02", [title |-> Ant, season |-> 1, episode |-> 2])
L_S1E9 == Derived("Ant.S01E09", [title |-> Ant, season |-> 1, episode |-> 9])
L_S1 == Derived("Ant.Season.1", [title |-> Ant, season |-> 1])
L_E2 == Derived("Ant.Episode.2", [title |-> Ant, episode |-> 2])
L_Ant == Derived("Ant", [title |-> Ant])
MediaListings == {L_Film, L_S1E2, L_S1E9, L_S1, L_E2, L_Ant}
MediaKeys == {GetTorrentKey(t) : t \in MediaListings \cup {T4}}

\* a db.json is put under the videos path, or removed from it
PutCatalog(id, file) ==
    /\ catalog[id] # file
    /\ catalog' = [catalog EXCEPT ![id] = file]
    /\ mediasCall' = Nothing /\ coreTop' = Nothing
    /\ UNCHANGED <<registryVars, engineVars, filterCall, cacheVars, beyondTop>>

\* one call of get_medias_from_torrents
CallGetMedias(torrents) ==
    /\ mediasCall' = Some([torrents |-> torrents, ret |-> GetMediasFromTorrents(torrents)])
    /\ coreTop' = Nothing
    /\ UNCHANGED <<catalog, registryVars, engineVars, filterCall, cacheVars, beyondTop>>

\* settings['torrents_filters'] of a profile: every profile is created with
\* the default settings
ProfileFilters(profile) == Some(DefaultFilters)

\* Core.top that reloads the plugins first, as fetch_top and search do
CallCoreTopReloading(profile, category) ==
    /\ \A c \in Categories : writing[c] = Nothing
    /\ DoReload
    /\ coreTop' = Some(
           [profile |-> profile, category |-> category,
            known |-> profile \in Range(profiles),
            torn |-> partial[GetId(category)], raised |-> lastReload'[1].raised,
            ret |-> <<>>])
    /\ mediasCall' = Nothing
    /\ UNCHANGED <<catalog, engineVars, filterCall, cacheVars, beyondTop>>

\* Core.top(profile, category), called from a request handler of the event
\* loop (no fetch_top is between its open and its close)
CallCoreTop(profile, category) ==
    /\ \A c \in Categories : writing[c] = Nothing
    /\ LET known == profile \in Range(profiles)
           t == TopOnFile(partial[GetId(category)], category, ProfileFilters(profile))
       IN  coreTop' = Some(
               [profile |-> profile, category |-> category, known |-> known,
                torn |-> partial[GetId(category)],
                raised |-> IF ~known THEN "KeyError" ELSE t.raised,
                ret |-> IF known /\ t.raised = None
                        THEN GetMediasFromTorrents(t.ret) ELSE <<>>])
    /\ mediasCall' = Nothing
    /\ UNCHANGED <<catalog, registryVars, engineVars, filterCall, cacheVars, beyondTop>>

\* a resolve has recorded key -> id in the positive map (core.py:469)
RecordTitle(key, id) ==
    /\ t2i' = (key :> id) @@ t2i
    /\ mediasCall' = Nothing /\ coreTop' = Nothing
    /\ UNCHANGED <<notFound, task, lastResolve, searches, fetches, catalog,
                   registryVars, engineVars, filterCall, beyondTop>>

(***************************************************************************)
(* The start: Core.__init__.                                               *)
(***************************************************************************)

\* the options: a dictionary of sections, each a dictionary; here the keys of
\* each section that is present
SectionNames == {"videos", "plugins", "server"}
RequiredKey == [videos |-> "path", plugins |-> "path", server |-> "tasks_interval"]
CompleteOptions == [s \in SectionNames |-> {RequiredKey[s]}]
OptionsSets ==
    UNION {[S -> {{}, {"path"}, {"tasks_interval"}}] : S \in SUBSET SectionNames}

\* options[section][key]: KeyError when the section or the key is missing
Has(opts, section, key) == section \in DOMAIN opts /\ key \in opts[section]

\* _create_data_path: after the mkdir, in daemon mode, os.chown(directory, ...)
\* names a variable that does not exist
CreateDataPath(d) == IF d THEN "NameError" ELSE None

\* ProfilesManager.__init__: _load, whose IOError alone is caught
NewProfilesManager(file) == IF file.state = "torn" THEN "ValueError" ELSE None

\* _build_titles_db: the KeyError of the options, or of TitlesDB, becomes
\* CoreError
BuildTitlesDB(opts) ==
    IF ~Has(opts, "videos", "path") THEN "CoreError"
    ELSE NewTitlesDB(fileT2I, fileNF).raised

\* TorrentEngine.__init__: options['plugins']['path'] outside any try
NewTorrentEngine(opts) == IF ~Has(opts, "plugins", "path") THEN "KeyError" ELSE None

\* TaskScheduler(options['server']['tasks_interval'], ...)
NewTaskScheduler(opts) ==
    IF ~Has(opts, "server", "tasks_interval") THEN "KeyError" ELSE None

\* the first of the steps that raises, None when none does
RECURSIVE FirstError(_)
FirstError(steps) ==
    IF steps = <<>> THEN None
    ELSE IF Head(steps) # None THEN Head(steps)
    ELSE FirstError(Tail(steps))

\* Core.__init__, step by step
CoreInit(opts, d) ==
    FirstError(<<CreateDataPath(d), NewProfilesManager(profilesFile),
                 BuildTitlesDB(opts), NewTorrentEngine(opts), NewTaskScheduler(opts)>>)

\* the configuration is changed
Configure(opts, d) ==
    /\ <<opts, d>> # <<options, daemon>>
    /\ options' = opts /\ daemon' = d
    /\ core' = Nothing
    /\ UNCHANGED <<registryVars, engineVars, filterCall, cacheVars, beyondStartup>>

\* Core(options, daemon)
NewCore ==
    /\ core' = Some([raised |-> CoreInit(options, daemon),
                     created |-> CoreInit(options, daemon) = None])
    /\ UNCHANGED <<options, daemon, registryVars, engineVars, filterCall, cacheVars,
                   beyondStartup>>

(***************************************************************************)
(* The provider's page: TorrentsListParser, one table row at a time.       *)
(***************************************************************************)

DigitChars == <<"0", "1", "2", "3", "4", "5", "6", "7", "8", "9">>
IsDigit(c) == \E d \in 1..10 : DigitChars[d] = c
DigitValue(c) == (CHOOSE d \in 1..10 : DigitChars[d] = c) - 1

RECURSIVE Decimal(_)
Decimal(s) ==
    IF s = <<>> THEN 0
    ELSE Decimal(SubSeq(s, 1, Len(s) - 1)) * 10 + DigitValue(s[Len(s)])

\* int(data): an optional sign and digits; Nothing stands for ValueError
IntOfData(data) ==
    LET signed == data # <<>> /\ data[1] \in {"-", "+"}
        digits == IF signed THEN Tail(data) ELSE data
    IN  IF digits = <<>> \/ \E i \in 1..Len(digits) : ~IsDigit(digits[i])
        THEN Nothing
        ELSE Some(IF signed /\ data[1] = "-" THEN 0 - Decimal(digits)
                  ELSE Decimal(digits))

\* TorrentsListParser.__init__: it sets neither _magnet, _size, _seeders nor
\* _leechers (Nothing: the attribute does not exist)
NewParser == [magnet |-> Nothing, size |-> Nothing, seeders |-> Nothing,
              leechers |-> Nothing, torrents |-> <<>>, raised |-> None]

\* handle_starttag of the <a> with the magnet link, when the row has one
HandleMagnet(p, magnet) ==
    IF magnet = Nothing THEN p ELSE [p EXCEPT !.magnet = magnet]

\* handle_starttag of the description <font>, which sets _size to None, and
\* handle_data of its text, where _RE_SIZE finds the size; a row may have no
\* description
HandleDescription(p, size) ==
    IF size = Nothing THEN p ELSE [p EXCEPT !.size = size]

\* handle_data in column 2 or 3: an empty cell brings no data at all
HandleCount(p, field, data) ==
    IF p.raised # None \/ data = <<>> THEN p
    ELSE IF IntOfData(data) = Nothing THEN [p EXCEPT !.raised = "ValueError"]
    ELSE [p EXCEPT ![field] = IntOfData(data)]

\* handle_endtag of the row, whose title was found: the listing is built from
\* the attributes, then _title and _size are reset to None
HandleEndRow(p, title) ==
    IF p.raised # None THEN p
    ELSE IF Nothing \in {p.magnet, p.size, p.seeders, p.leechers}
    THEN [p EXCEPT !.raised = "AttributeError"]
    ELSE [p EXCEPT !.torrents = Append(@, [name |-> title, magnet |-> p.magnet[1],
                                           size |-> p.size[1],
                                           seeders |-> p.seeders[1],
                                           leechers |-> p.leechers[1]]),
                   !.size = Some(None)]

\* the parser over one row: the second column (magnet link, description), the
\* seeders cell, the leechers cell, the end of the row
HandleRow(p, row) ==
    HandleEndRow(
        HandleCount(
            HandleCount(HandleDescription(HandleMagnet(p, row.magnet), row.size),
                        "seeders", row.seeders),
            "leechers", row.leechers),
        row.title)

\* _plugin_method_wrapper around top(): any exception becomes None
PluginTop(p) == IF p.raised # None THEN Nothing ELSE Some(p.torrents)

MaxRows == 2
\* the title of the k-th row of the page, and its magnet link
RowTitles == <<"Ant", "Bee", "Cat", "Dog">>
MagnetOf(title) == "magnet:?dn=" \o title
CellTexts == {<<"1", "2">>, <<"-", "3">>, <<"N", "/", "A">>, <<>>}
RowSizes == {Nothing, Some("1.4 GiB")}

\* parser.feed reaches the next row of the page
FeedRow(hasMagnet, size, seeders, leechers) ==
    LET title == RowTitles[Len(rows) + 1]
        row == [title |-> title,
                magnet |-> IF hasMagnet THEN Some(MagnetOf(title)) ELSE Nothing,
                size |-> size, seeders |-> seeders, leechers |-> leechers] IN
    /\ pageRet = Nothing
    /\ parser.raised = None
    /\ Len(rows) < MaxRows /\ Len(rows) < Len(RowTitles)
    /\ rows' = Append(rows, row)
    /\ parser' = HandleRow(parser, row)
    /\ UNCHANGED <<pageRet, registryVars, engineVars, filterCall, cacheVars, beyondParse>>

\* the page ends, or the exception leaves feed: the wrapped top() returns
PageEnd ==
    /\ pageRet = Nothing
    /\ pageRet' = Some(PluginTop(parser))
    /\ UNCHANGED <<parser, rows, registryVars, engineVars, filterCall, cacheVars,
                   beyondParse>>

\* top() is called again: parser = TorrentsListParser()
NewPage ==
    /\ pageRet # Nothing
    /\ parser' = NewParser
    /\ rows' = <<>>
    /\ pageRet' = Nothing
    /\ UNCHANGED <<registryVars, engineVars, filterCall, cacheVars, beyondParse>>

(***************************************************************************)
(* The web service: the handlers of the profile requests.                  *)
(***************************************************************************)

\* write_json(code=0), write_error(msg=...), and the answer of
\* GetProfilePictureHandler: the picture, or status 400 with an HTML body
JsonOk == [status |-> "200", json |-> TRUE, code |-> "0", error |-> ""]
JsonError(msg) == [status |-> "200", json |-> TRUE, code |-> "1", error |-> msg]
PictureBody == [status |-> "200", json |-> FALSE, code |-> "", error |-> ""]
Html400 == [status |-> "400", json |-> FALSE, code |-> "", error |-> ""]

MissingName == "missing 'name' argument"
Malformed == "malformed request"
\* str(e) of the exception the core raised
StrOf(raised) == "str(" \o raised \o ")"

\* the profiles as they are, no core method called
Untouched(ps, pics, file) ==
    [raised |-> None, profiles |-> ps, pictures |-> pics, file |-> file]

\* the answer to a call of the core that ended as end, whose exceptions in
\* caught are written as errors
Answer(op, end, caught) ==
    [resp |-> IF end.raised = None THEN JsonOk
              ELSE IF end.raised \in caught THEN JsonError(StrOf(end.raised))
              ELSE [status |-> "500", json |-> FALSE, code |-> "", error |-> ""],
     op |-> op, end |-> end]
NoCall(resp, ps, pics, file) ==
    [resp |-> resp, op |-> "", end |-> Untouched(ps, pics, file)]

\* GetProfilePictureHandler.get
GetProfilePictureHandlerGet(ps, pics, file, name) ==
    IF name = Nothing THEN NoCall(Html400, ps, pics, file)
    ELSE LET end == GetPicture(ps, pics, file, name[1])
         IN  [resp |-> IF end.raised = "KeyError" THEN Html400 ELSE PictureBody,
              op |-> "get_profile_picture", end |-> end]

\* SetProfilePictureHandler.get
SetProfilePictureHandlerGet(ps, pics, file, name, picOk) ==
    IF name = Nothing THEN NoCall(JsonError(MissingName), ps, pics, file)
    ELSE Answer("set_profile_picture",
                SetPicture(ps, pics, file, name[1], NoPicture, picOk), {"KeyError"})

\* SetProfilePictureHandler.post
SetProfilePictureHandlerPost(ps, pics, file, name, upload, picOk) ==
    IF name = Nothing THEN NoCall(JsonError(MissingName), ps, pics, file)
    ELSE IF upload = Nothing THEN NoCall(JsonError(Malformed), ps, pics, file)
    ELSE Answer("set_profile_picture",
                SetPicture(ps, pics, file, name[1], upload[1], picOk),
                {"KeyError", "IOError"})

\* CreateProfileHandler.get
CreateProfileHandlerGet(ps, pics, file, name, fault) ==
    IF name = Nothing THEN NoCall(JsonError(MissingName), ps, pics, file)
    ELSE Answer("create_profile",
                Create(ps, pics, file, name[1], NoPicture, TRUE, fault), {"ValueError"})

\* CreateProfileHandler.post
CreateProfileHandlerPost(ps, pics, file, name, upload, picOk, fault) ==
    IF name = Nothing THEN NoCall(JsonError(MissingName), ps, pics, file)
    ELSE IF upload = Nothing THEN NoCall(JsonError(Malformed), ps, pics, file)
    ELSE Answer("create_profile",
                Create(ps, pics, file, name[1], upload[1], picOk, fault),
                {"IOError", "ValueError"})

\* DeleteProfileHandler.get
DeleteProfileHandlerGet(ps, pics, file, name, picOk, fault) ==
    IF name = Nothing THEN NoCall(JsonError(MissingName), ps, pics, file)
    ELSE Answer("delete_profile", Delete(ps, pics, file, name[1], picOk, fault),
                {"KeyError"})

\* the routes of the profile requests and the methods their handlers define
ProfileRoutes ==
    {<<"/api/getprofilepicture", "GET">>, <<"/api/setprofilepicture", "GET">>,
     <<"/api/setprofilepicture", "POST">>, <<"/api/createprofile", "GET">>,
     <<"/api/createprofile", "POST">>, <<"/api/deleteprofile", "GET">>}

Route(route, ps, pics, file, name, upload, picOk, fault) ==
    CASE route = <<"/api/getprofilepicture", "GET">> ->
            GetProfilePictureHandlerGet(ps, pics, file, name)
      [] route = <<"/api/setprofilepicture", "GET">> ->
            SetProfilePictureHandlerGet(ps, pics, file, name, picOk)
      [] route = <<"/api/setprofilepicture", "POST">> ->
            SetProfilePictureHandlerPost(ps, pics, file, name, upload, picOk)
      [] route = <<"/api/createprofile", "GET">> ->
            CreateProfileHandlerGet(ps, pics, file, name, fault)
      [] route = <<"/api/createprofile", "POST">> ->
            CreateProfileHandlerPost(ps, pics, file, name, upload, picOk, fault)
      [] route = <<"/api/deleteprofile", "GET">> ->
            DeleteProfileHandlerGet(ps, pics, file, name, picOk, fault)

NameArgs == {Nothing} \cup {Some(n) : n \in ProfileNames}
Uploads == {Nothing} \cup {Some(p) : p \in Pictures}

\* a profile request is received and answered
ProfileRequest(route, name, upload, picOk, fault) ==
    LET r == Route(route, profiles, pictures, profilesFile, name, upload, picOk, fault) IN
    /\ profiles' = r.end.profiles
    /\ pictures' = r.end.pictures
    /\ profilesFile' = r.end.file
    /\ lastOp' = Nothing
    /\ webResp' = Some([route |-> route, name |-> name, resp |-> r.resp,
                        changed |-> <<r.end.profiles, r.end.pictures, r.end.file>>
                                        # <<profiles, pictures, profilesFile>>])
    /\ UNCHANGED <<registryVars, engineVars, filterCall, cacheVars, beyondProfilesWeb>>

(***************************************************************************)
(* The video: Video.get_content under GetVideoHandler.get.                 *)
(***************************************************************************)

\* Video._CHUNK_SIZE
CHUNK_SIZE == 64 * 1024

\* tornado.httputil._parse_request_range on "bytes=<first>-<last>", first and
\* last each a number or absent: the pair (start, end), end exclusive; a
\* suffix "-n" gives (-n, None) and "-0" gives (None, 0)
ParseRequestRange(first, last) ==
    IF last = Nothing THEN <<first, Nothing>>
    ELSE IF first # Nothing THEN <<first, Some(last[1] + 1)>>
    ELSE IF last[1] # 0 THEN <<Some(0 - last[1]), Nothing>>
    ELSE <<Nothing, Some(0)>>

\* the loop of get_content (core.py:630-642) with read bytes yielded so far:
\* f.read(to_read) at offset start + read of a file of size bytes gives the
\* bytes left up to to_read, none at or after the end of the file
RECURSIVE ContentLoop(_, _, _, _, _, _)
ContentLoop(size, start, end, read, to_read, chunks) ==
    IF ~(end = Nothing \/ start + read < end[1])
    THEN [raised |-> None, chunks |-> chunks]
    ELSE LET n == IF end # Nothing /\ end[1] # 0 /\ start + read + to_read > end[1]
                  THEN end[1] - start - read ELSE to_read
             left == size - (start + read)
             len == IF left <= 0 THEN 0 ELSE IF left < n THEN left ELSE n
         IN  IF len > 0
             THEN ContentLoop(size, start, end, read + len, n,
                              Append(chunks, <<start + read, len>>))
             ELSE IF end = Nothing \/ start + read = end[1]
             THEN [raised |-> None, chunks |-> chunks]
             ELSE [raised |-> "AssertionError", chunks |-> chunks]

\* Video.get_content(start, end) on a file of size bytes: the chunks yielded,
\* each as <<offset, length>>; f.seek of a negative offset raises OSError
GetContent(size, start, end) ==
    LET s == IF start = Nothing THEN 0 ELSE start[1]
    IN  IF s < 0 THEN [raised |-> "OSError", chunks |-> <<>>]
        ELSE ContentLoop(size, s, end, 0, CHUNK_SIZE, <<>>)

\* GetVideoHandler.get from the Range header on, for a video of size bytes:
\* range is Nothing (no header, or one that is not parsed) or Some(pair)
GetVideo(size, range) ==
    IF range = Nothing
    THEN [status |-> "200", start |-> Nothing, end |-> Nothing,
          content |-> Some(GetContent(size, Nothing, Nothing))]
    ELSE LET start == range[1][1]
             end == range[1][2]
         IN  IF (start # Nothing /\ start[1] >= size) \/ end = Some(0)
             THEN [status |-> "416", start |-> start, end |-> end, content |-> Nothing]
             ELSE LET s == IF start # Nothing /\ start[1] < 0
                           THEN Some(start[1] + size) ELSE start
                      e == IF end # Nothing /\ end[1] > size THEN Some(size) ELSE end
                  IN  [status |-> "206", start |-> s, end |-> e,
                       content |-> Some(GetContent(size, s, e))]

\* file sizes and the numbers of a Range header
VideoSizes == {0, 1, 10, CHUNK_SIZE, CHUNK_SIZE + 1, 2 * CHUNK_SIZE + 5}
RangeNumbers ==
    {Nothing} \cup {Some(n) : n \in {0, 5, 20, CHUNK_SIZE - 1, CHUNK_SIZE, 3 * CHUNK_SIZE}}
RangeHeaders ==
    {Nothing} \cup {Some(ParseRequestRange(a, b)) : a \in RangeNumbers, b \in RangeNumbers}

\* a video request is received and answered
ServeVideo(size, range) ==
    /\ videoResp' = Some([size |-> size, range |-> range, resp |-> GetVideo(size, range)])
    /\ UNCHANGED <<registryVars, engineVars, filterCall, cacheVars, beyondVideo>>

(***************************************************************************)
(* Specifications.                                                         *)
(***************************************************************************)

\* TorrentEngine.__init__, and a plugins directory
InitRegistry ==
    /\ dirOK = TRUE
    /\ dirFiles = {}
    /\ plugins = <<>>
    /\ loads = 0
    /\ lastReload = Nothing

\* no snapshot file written yet, no fetch_top running
InitEngine ==
    /\ snapshot = [f \in SnapshotFiles |-> NoFile]
    /\ fetchPc = [c \in Categories |-> Idle]
    /\ lastFetch = Nothing
    /\ topRet = Nothing

NoFilterCall == [torrents |-> <<>>, filters |-> Nothing, ret |-> Nothing]

\* TitlesDB.__init__ with no cache file on disk, no resolve running
InitCache ==
    /\ t2i = <<>>
    /\ notFound = {}
    /\ task = [r \in Resolvers |-> Idle]
    /\ lastResolve = Nothing
    /\ searches = [k \in Keys |-> 0]
    /\ fetches = 0

\* no search running
InitSearch == searchPc = Idle /\ lastSearch = Nothing

\* run not started yet
InitSchedAt(starts) ==
    /\ now \in starts
    /\ schedPc = "start"
    /\ t0 = 0 /\ next_execution = 0 /\ iter = 0 /\ sleepUntil = 0
    /\ tasks = NoTasks

\* no tick running
InitTick == pipe = [c \in Categories |-> IdlePipe] /\ lastTick = Nothing

InitSched == InitSchedAt({0})

\* no cache file on disk, the process running
InitPersist ==
    /\ fileT2I = NoFile /\ fileNF = NoFile
    /\ phase = "running"
    /\ lastSave = Nothing /\ lastLoad = Nothing

\* no request running
InitRequest ==
    /\ reqPc = "idle" /\ reqUrl = "" /\ attempts = 0 /\ wait = 0 /\ waited = 0
    /\ lastResp = Nothing /\ lastRequest = Nothing

\* no aggregate call with provider calls in flight
InitAggregate ==
    /\ aggPc = "idle" /\ aggOp = "" /\ aggArg = <<>> /\ calls = <<>>
    /\ aggRet = Nothing

\* every snapshot file whole, no write in progress, nothing read
InitOverwrite ==
    /\ partial = [f \in SnapshotFiles |-> FALSE]
    /\ writing = [c \in Categories |-> Nothing]
    /\ topRead = Nothing

\* ProfilesManager.__init__ with no profiles file: no profile
InitProfiles ==
    /\ profiles = <<>>
    /\ profilesFile = AbsentFile
    /\ pictures = {}
    /\ lastOp = Nothing

\* no catalog entry stored, no call made
InitTop ==
    /\ catalog = [i \in CatalogIds |-> NoFile]
    /\ mediasCall = Nothing
    /\ coreTop = Nothing

\* a complete configuration, user mode, no Core constructed
InitStartup ==
    /\ options = CompleteOptions
    /\ daemon = FALSE
    /\ core = Nothing

\* a new parser, nothing fed
InitParse ==
    /\ parser = NewParser
    /\ rows = <<>>
    /\ pageRet = Nothing

\* no request answered yet
InitWeb == webResp = Nothing

\* no video request answered yet
InitVideo == videoResp = Nothing

InitExt ==
    /\ InitSearch /\ InitSched /\ InitTick /\ InitPersist /\ InitRequest
    /\ InitAggregate
    /\ InitOverwrite
    /\ InitProfiles
    /\ InitTop
    /\ InitStartup
    /\ InitParse
    /\ InitWeb
    /\ InitVideo

Init == InitRegistry /\ InitEngine /\ InitCache /\ filterCall = NoFilterCall /\ InitExt

\* The registry alone: the directory changes, _reload_plugins runs.
RegistryChangeDir ==
    ChangeDir(RegistryFiles) /\ UNCHANGED <<engineVars, filterCall, cacheVars, extVars>>
RegistryReload ==
    DoReload /\ UNCHANGED <<engineVars, filterCall, cacheVars, extVars>>
NextRegistry == RegistryChangeDir \/ RegistryReload
SpecRegistry == Init /\ [][NextRegistry]_vars

\* The engine: fetch_top of the two categories (concurrent, as the scheduler's
\* gen.multi runs them) and top, with any plugins directory of up to two
\* plugins and a file named above the sentinel.
EngineFiles == {F_a, F_b, F_eacute}
EngineFilters == {Nothing, Some(DefaultFilters)}
InitEngineDir ==
    /\ dirOK \in BOOLEAN
    /\ dirFiles \in SUBSET EngineFiles
    /\ plugins = <<>> /\ loads = 0 /\ lastReload = Nothing
    /\ InitEngine /\ InitCache /\ filterCall = NoFilterCall /\ InitExt
NextEngine ==
    \/ \E c \in Categories : FetchTopStart(c)
    \/ \E c \in Categories : FetchTopFinish(c)
    \/ \E c \in Categories, f \in EngineFilters : CallTop(c, f)
SpecEngine == InitEngineDir /\ [][NextEngine]_vars

\* _filter as a function: any list of listings, any filter, one call.
InitFilter ==
    /\ InitRegistry /\ InitEngine /\ InitCache /\ InitExt
    /\ filterCall \in {[torrents |-> l, filters |-> f, ret |-> Nothing] :
                          l \in ListsUpTo(MaxFilterLen), f \in AllFilters}
SpecFilter == InitFilter /\ [][CallFilter]_vars

\* The resolution cache: resolves of any listing in any category, interleaved
\* at their awaits.
NextCache ==
    \/ \E r \in Resolvers, t \in CacheTorrents, c \in Categories : StartResolve(r, t, c)
    \/ \E r \in Resolvers, page \in SearchPages : SearchReturn(r, page)
    \/ \E r \in Resolvers : SearchFails(r)
SpecCache == Init /\ [][NextCache]_vars

\* The search: search calls with any plugins directory of the engine's model.
NextSearch == (\E q \in Queries : SearchStart(q)) \/ SearchFinish
SpecSearch == InitEngineDir /\ [][NextSearch]_vars

\* The scheduler: run, its iterations lasting any time up to MaxDur.
NextSched == RunStart \/ (\E d \in 0..MaxDur : RunIteration(d)) \/ RunWake
InitSchedAny ==
    /\ InitRegistry /\ InitEngine /\ InitCache /\ filterCall = NoFilterCall
    /\ InitSearch /\ InitTick /\ InitPersist /\ InitRequest
    /\ InitAggregate
    /\ InitOverwrite
    /\ InitProfiles
    /\ InitTop
    /\ InitStartup
    /\ InitParse
    /\ InitWeb
    /\ InitVideo
    /\ InitSchedAt(0..MaxStart)
SpecSched == InitSchedAny /\ [][NextSched]_vars

\* The tick: _fetch_top_torrents, the pipelines of its categories interleaved.
NextTick ==
    \/ TickStart
    \/ \E c \in Categories, o \in FetchTopOutcomes : PipeFetchEnd(c, o)
    \/ \E c \in Categories, k \in 1..2, o \in ResolveOutcomes : PipeResolveEnd(c, k, o)
    \/ TickEnd
SpecTick == Init /\ [][NextTick]_vars

\* Persistence: the cache changes, is saved, the process may stop in a save,
\* and a TitlesDB is constructed on the files.
NextPersist ==
    \/ \E k \in PKeys, id \in PIds : AddTitle(k, id)
    \/ \E k \in PKeys : AddNotFound(k)
    \/ \E w1, w2 \in BOOLEAN : SaveDatabases(w1, w2)
    \/ StopDuringSave
    \/ Start
SpecPersist == Init /\ [][NextPersist]_vars

\* The request loop: _request calls, their fetches ending in any way.
NextRequest ==
    \/ \E u \in Urls : RequestStart(u)
    \/ \E o \in FetchOutcomes : FetchEnds(o)
    \/ SleepEnds
SpecRequest == Init /\ [][NextRequest]_vars

\* The aggregate calls: fetch_top and search with a plugins directory of up to
\* two plugins.  The IOLoop runs every callback that is ready: a provider call
\* that can end does end, a rate-limited request is retried, and the aggregate
\* resumes once its gen.multi is complete.
AggFiles == {F_a, F_b}
InitAggregateDir ==
    /\ dirOK \in BOOLEAN
    /\ dirFiles \in SUBSET AggFiles
    /\ plugins = <<>> /\ loads = 0 /\ lastReload = Nothing
    /\ InitEngine /\ InitCache /\ filterCall = NoFilterCall /\ InitExt
NextAggregate ==
    \/ \E c \in Categories : AggStart("fetch_top", GetId(c))
    \/ \E q \in AggQueries : AggStart("search", q)
    \/ \E k \in 1..2, o \in AggOutcomes : CallEnds(k, o)
    \/ \E k \in 1..2 : CallRateLimited(k)
    \/ \E k \in 1..2 : CallRetries(k)
    \/ AggFinish
SpecAggregate ==
    /\ InitAggregateDir /\ [][NextAggregate]_vars
    /\ WF_vars(\E k \in 1..2, o \in AggOutcomes : CallEnds(k, o))
    /\ WF_vars(\E k \in 1..2 : CallRateLimited(k))
    /\ WF_vars(\E k \in 1..2 : CallRetries(k))
    /\ WF_vars(AggFinish)

\* The overwrite: fetch_top of the two categories with the write of the file
\* in steps, and readers of the files.
OverwriteFiles == {F_a}
InitOverwriteDir ==
    /\ dirOK = TRUE
    /\ dirFiles \in SUBSET OverwriteFiles
    /\ plugins = <<>> /\ loads = 0 /\ lastReload = Nothing
    /\ InitEngine /\ InitCache /\ filterCall = NoFilterCall /\ InitExt
NextOverwrite ==
    \/ \E c \in Categories : FetchTopStart(c)
    \/ \E c \in Categories : OverwriteBegin(c)
    \/ \E c \in Categories : OverwriteEnd(c)
    \/ \E c \in Categories : OverwriteFails(c)
    \/ \E c \in Categories, f \in EngineFilters : ReadTop(c, f)
SpecOverwrite == InitOverwriteDir /\ [][NextOverwrite]_vars

\* The profiles: any operation on any name, with any picture and any fault of
\* the file system.
NextProfiles ==
    \/ \E n \in ProfileNames, p \in Pictures, ok \in BOOLEAN, f \in WriteFaults :
          CreateProfile(n, p, ok, f)
    \/ \E n \in ProfileNames, ok \in BOOLEAN, f \in WriteFaults : DeleteProfile(n, ok, f)
    \/ \E n \in ProfileNames, p \in Pictures, ok \in BOOLEAN : SetProfilePicture(n, p, ok)
    \/ \E n \in ProfileNames : GetProfilePicture(n)
SpecProfiles == Init /\ [][NextProfiles]_vars

\* The medias: get_medias_from_torrents on any list of up to MaxMedias
\* listings, with any positive map and any stored catalog entries.
MaxMedias == 2
CatalogFiles == {NoFile} \cup {Some(e) : e \in CatalogEntries}
NextMedias ==
    \/ \E t \in {L_Film, L_Ant} , i \in CatalogIds : RecordTitle(GetTorrentKey(t), i)
    \/ \E i \in CatalogIds, f \in CatalogFiles : PutCatalog(i, f)
    \/ \E n \in 1..MaxMedias : \E l \in [1..n -> MediaListings] : CallGetMedias(l)
SpecMedias == Init /\ [][NextMedias]_vars

\* Core.top: the top list of the movies is fetched (the write of its file may
\* fail), a profile is created, a listing is resolved, its catalog entry is
\* stored or removed, and top is requested.
NextCoreTop ==
    \/ FetchTopStart(Movies)
    \/ OverwriteBegin(Movies)
    \/ OverwriteEnd(Movies)
    \/ OverwriteFails(Movies)
    \/ CreateProfile(Fistro, NoPicture, TRUE, "ok")
    \/ RecordTitle(GetTorrentKey(T1), "tt0133093")
    \/ \E f \in {NoFile, Some(MovieEntry)} : PutCatalog("tt0133093", f)
    \/ \E p \in ProfileNames, c \in Categories : CallCoreTop(p, c)
SpecCoreTop == InitOverwriteDir /\ [][NextCoreTop]_vars

\* The start: Core is constructed on any configuration.
NextStartup ==
    \/ \E o \in OptionsSets, d \in BOOLEAN : Configure(o, d)
    \/ NewCore
SpecStartup == Init /\ [][NextStartup]_vars

\* The provider's page: rows with any cell texts are parsed.
NextParse ==
    \/ \E m \in BOOLEAN, z \in RowSizes, s \in CellTexts, l \in CellTexts :
          FeedRow(m, z, s, l)
    \/ PageEnd
    \/ NewPage
SpecParse == Init /\ [][NextParse]_vars

\* The web service: any profile request, with or without its arguments.
NextWeb ==
    \E route \in ProfileRoutes, n \in NameArgs, u \in Uploads, ok \in BOOLEAN,
       f \in WriteFaults : ProfileRequest(route, n, u, ok, f)
SpecWeb == Init /\ [][NextWeb]_vars

\* The video: requests with any Range header on files of any size.
NextVideo == \E size \in VideoSizes, range \in RangeHeaders : ServeVideo(size, range)
SpecVideo == Init /\ [][NextVideo]_vars

Next == NextRegistry \/ NextEngine \/ NextCache \/ CallFilter \/ NextSearch \/ NextSched
        \/ NextTick \/ NextPersist \/ NextRequest
        \/ NextAggregate
        \/ NextOverwrite
        \/ NextProfiles
        \/ NextMedias \/ NextCoreTop
        \/ NextStartup
        \/ NextParse
        \/ NextWeb
        \/ NextVideo
Spec == Init /\ [][Next]_vars

(***************************************************************************)
(* Properties of the aggregation engine, checked under SpecEngine.         *)
(***************************************************************************)

\* the listings returned by the providers that did not fail, provider by provider
RECURSIVE Gathered(_)
Gathered(outcomes) ==
    IF outcomes = <<>> THEN <<>>
    ELSE LET o == Head(outcomes)
         IN  (IF ~o.raised /\ o.value # Nothing THEN o.value[1] ELSE <<>>)
             \o Gathered(Tail(outcomes))

\* how many times listing t occurs in list l
Count(l, t) == Cardinality({k \in 1..Len(l) : l[k] = t})

\* the two lists hold the same listings, each as many times
SameListings(l1, l2) == \A t \in Torrents : Count(l1, t) = Count(l2, t)

\* a top without filter has returned right after a fetch_top of the same
\* category in which a provider call raised
TopAfterFailingFetch ==
    /\ topRet # Nothing /\ lastFetch # Nothing
    /\ topRet[1].category = lastFetch[1].category
    /\ topRet[1].filters = Nothing
    /\ \E k \in DOMAIN lastFetch[1].outcomes : lastFetch[1].outcomes[k].raised

C1_WitnessKept ==
    /\ TopAfterFailingFetch
    /\ Gathered(lastFetch[1].outcomes) = <<>>
    /\ topRet[1].ret # <<>>

\* the listings of l with s seeders, in the order of l
WithSeeders(l, s) == SelectSeq(l, LAMBDA t : t.seeders = s)

\* C10: the list top returns is in descending order of seeders, and the
\* listings of equal seeders are in the order they have in the merged provider
\* results (the snapshot, filtered).
C10_TopOrdered ==
    topRet # Nothing =>
        LET ret == topRet[1].ret
            merged == Filter(ReadSnapshot(snapshot[GetId(topRet[1].category)]),
                             topRet[1].filters)
        IN  /\ \A i, j \in 1..Len(ret) : i < j => ret[i].seeders >= ret[j].seeders
            /\ \A t \in Torrents :
                  WithSeeders(ret, t.seeders) = WithSeeders(merged, t.seeders)

\* top has reordered a snapshot that holds two different listings of equal
\* seeders after a listing of fewer seeders
C10_Witness ==
    /\ topRet # Nothing
    /\ Len(topRet[1].ret) = 4
    /\ topRet[1].ret[2] = T4 /\ topRet[1].ret[3] = T1
    /\ ReadSnapshot(snapshot[GetId(topRet[1].category)])[1] = T4

(***************************************************************************)
(* Properties of the filter, checked under SpecFilter.                     *)
(***************************************************************************)

\* a is b with some elements left out
RECURSIVE IsSubList(_, _)
IsSubList(a, b) ==
    IF a = <<>> THEN TRUE
    ELSE IF b = <<>> THEN FALSE
    ELSE IF Head(a) = Head(b) THEN IsSubList(Tail(a), Tail(b))
    ELSE IsSubList(a, Tail(b))

\* listing t lacks attribute attr, or its value matches the regular expression
\* of one of the accepted values
LacksOrMatches(t, attr, accepted, dictionary) ==
    \/ attr \notin DOMAIN t.name_info
    \/ \E k \in 1..Len(accepted) : t.name_info[attr] \in dictionary[accepted[k]]

\* listing t satisfies every component of the 4-tuple f that is not absent
Satisfies(t, f) ==
    /\ f[1] # Nothing => LacksOrMatches(t, "quality", f[1][1], FILTER_QUALITY)
    /\ f[2] # Nothing => LacksOrMatches(t, "codec", f[2][1], FILTER_CODEC)
    /\ f[3] # Nothing => LacksOrMatches(t, "resolution", f[3][1], FILTER_RESOLUTION)
    /\ f[4] # Nothing =>
          ~("3d" \in DOMAIN t.name_info /\ t.name_info["3d"]
            /\ ~InList("3D", f[4][1]))

\* C8: _filter(L, F) is a sub-list of L, and each listing in it satisfies
\* every component of F that is not absent.
C8_FilterSound ==
    filterCall.ret # Nothing =>
        /\ IsSubList(filterCall.ret[1], filterCall.torrents)
        /\ filterCall.filters # Nothing =>
              \A k \in 1..Len(filterCall.ret[1]) :
                  Satisfies(filterCall.ret[1][k], filterCall.filters[1])

\* a filter with its four components given has kept one listing of two
C8_Witness ==
    /\ filterCall.ret # Nothing
    /\ filterCall.filters # Nothing
    /\ \A k \in 1..4 : filterCall.filters[1][k] # Nothing
    /\ Len(filterCall.torrents) = 2
    /\ Len(filterCall.ret[1]) = 1

\* the component of a filter that alone is not absent
OnlyComponent(f, k) == f[k] # Nothing /\ \A i \in (1..4) \ {k} : f[i] = Nothing

\* the result of a call whose filter has only component k: exactly the
\* listings that lack the attribute or match an accepted value
OnlyComponentExact(k, attr, dictionary) ==
    (/\ filterCall.ret # Nothing
     /\ filterCall.filters # Nothing
     /\ OnlyComponent(filterCall.filters[1], k)) =>
        filterCall.ret[1] =
            SelectSeq(filterCall.torrents, LAMBDA t :
                LacksOrMatches(t, attr, filterCall.filters[1][k][1], dictionary))

\* C9: for each quality, codec or resolution component that is not absent, a
\* listing passes exactly when it lacks the attribute or its value matches the
\* regular expression of an accepted value (so a listing without the attribute
\* passes for every accepted list).
C9_PassExactly ==
    /\ OnlyComponentExact(1, "quality", FILTER_QUALITY)
    /\ OnlyComponentExact(2, "codec", FILTER_CODEC)
    /\ OnlyComponentExact(3, "resolution", FILTER_RESOLUTION)

(***************************************************************************)
(* Properties of the provider registry, checked under SpecRegistry.        *)
(***************************************************************************)

\* the names of the candidate plugin files of the directory
CandidateNames ==
    {RSplitDot(x) : x \in {y \in dirFiles :
        EndsWith(y, PyExt) /\ ~StartsWith(y, DisableMarker)}}

\* C5: every plugin whose file is present both before and after a reload
\* keeps the same handle object (in particular a reload with an unchanged
\* directory loads nothing and yields the same handles in the same order).
C5_HandlesKept ==
    (lastReload # Nothing /\ dirOK) =>
        LET before == lastReload[1].before
        IN  /\ \A k \in 1..Len(before) :
                  before[k].name \in CandidateNames =>
                      \E j \in 1..Len(plugins) : plugins[j] = before[k]
            /\ {before[k].name : k \in 1..Len(before)} = CandidateNames =>
                  plugins = before

\* C6: after every reload that could list the directory, the handle list
\* holds exactly one handle for each candidate file of the directory and no
\* handle for any other name.
C6_OneHandlePerFile ==
    (lastReload # Nothing /\ dirOK) =>
        /\ {plugins[k].name : k \in 1..Len(plugins)} = CandidateNames
        /\ \A i, j \in 1..Len(plugins) :
              plugins[i].name = plugins[j].name => i = j

\* C7: if the plugins directory cannot be listed at a reload, the registry
\* keeps the handle list it had before that reload, and the reload does not
\* raise.
C7_ListFailureKeepsHandles ==
    (lastReload # Nothing /\ ~dirOK) =>
        /\ plugins = lastReload[1].before
        /\ lastReload[1].raised = None

(***************************************************************************)
(* Properties of the resolution cache, checked under SpecCache.            *)
(***************************************************************************)

\* C2: no key is at the same time in the positive map and in the not-found
\* set.
C2_CachesDisjoint == (DOMAIN t2i) \cap notFound = {}

\* C3: once a key is in the not-found set, every later resolve of a listing
\* with that key returns null without issuing a metadata-service search.
C3_NotFoundIsFinal ==
    (lastResolve # Nothing /\ lastResolve[1].wasNotFound) =>
        /\ lastResolve[1].title = None
        /\ ~lastResolve[1].searched

C11_SearchMerged ==
    (lastSearch # Nothing /\ lastSearch[1].outcomes # <<>>) =>
        /\ lastSearch[1].raised = None
        /\ lastSearch[1].ret = SortedBySeeders(Gathered(lastSearch[1].outcomes))

(***************************************************************************)
(* Properties of the scheduler, checked under SpecSched.                   *)
(***************************************************************************)

\* C12: in every iteration of the loop of run, before the loop sleeps,
\* fetch_top has been invoked for every category, the listings have been
\* resolved and the snapshots and caches persisted.
C12_IterationRunsTasks ==
    schedPc = "sleeping" =>
        /\ tasks.fetched = Categories
        /\ tasks.resolved
        /\ tasks.saved

\* C14: the instant the scheduler sleeps until after its k-th iteration is
\* t0 + k * interval, whatever the iterations have lasted.
C14_NoDrift ==
    schedPc = "sleeping" => sleepUntil = t0 + iter * Interval

\* the third iteration ends later than the instant it is to sleep until
C14_Witness ==
    /\ schedPc = "sleeping"
    /\ iter = 3
    /\ now > sleepUntil

(***************************************************************************)
(* Properties of the tick, checked under SpecTick.                         *)
(***************************************************************************)

\* C13: when the pipeline of one category raises during a tick, the pipelines
\* of the other categories run to completion and the failure stays inside the
\* tick: nothing is raised to the loop, which goes on.
C13_FailureContained ==
    (lastTick # Nothing
     /\ \E c \in Categories : lastTick[1].pipes[c].stage = "raised") =>
        /\ \A c \in Categories : lastTick[1].pipes[c].stage \in {"done", "raised"}
        /\ lastTick[1].raised = None

(***************************************************************************)
(* Properties of the persistence of the cache.                             *)
(***************************************************************************)

\* C15 (under SpecCache): when a resolve that has added an entry to the
\* positive map or a key to the not-found set returns, each cache file holds
\* in full the structure that is in memory.
C15_SavedOnMutation ==
    (lastResolve # Nothing /\ lastResolve[1].results # Nothing) =>
        /\ fileT2I # NoFile
        /\ LoadTorrentsToImdb(fileT2I).val = t2i
        /\ fileNF # NoFile
        /\ LoadTitlesNotFound(fileNF).val = notFound

\* C16 (under SpecPersist): the TitlesDB constructed on the files that a
\* save_databases has written holds the positive map and the not-found set
\* that were saved: the same keys, the same id for each key.
C16_RoundTrip ==
    (/\ lastSave # Nothing
     /\ lastSave[1].raised = None
     /\ lastLoad # Nothing) =>
        /\ lastLoad[1].raised = None
        /\ lastLoad[1].t2i = t2i
        /\ lastLoad[1].notFound = notFound

\* both keys, with different ids, and a not-found key have been saved and
\* loaded
C16_Witness ==
    /\ lastSave # Nothing /\ lastSave[1].raised = None
    /\ lastLoad # Nothing
    /\ DOMAIN t2i = PKeys
    /\ t2i[PKey1] # t2i[PKey2]
    /\ notFound = {PKey2}
    /\ lastLoad[1].t2i = t2i

\* C17 (under SpecPersist): a save_databases that cannot write a cache file
\* does not raise.
C17_SaveFaultContained ==
    (lastSave # Nothing /\ ~lastSave[1].writable) => lastSave[1].raised = None

\* C18 (under SpecPersist): after a stop during save_databases, the next start
\* loads both caches without failing, the loaded positive map and not-found
\* set are disjoint, and they hold only entries that were in memory before
\* the stop.
C18_StopTolerated ==
    (phase = "restarted" /\ lastLoad # Nothing) =>
        /\ lastLoad[1].raised = None
        /\ (DOMAIN lastLoad[1].t2i) \cap lastLoad[1].notFound = {}
        /\ \A k \in DOMAIN lastLoad[1].t2i :
              k \in DOMAIN t2i /\ lastLoad[1].t2i[k] = t2i[k]
        /\ lastLoad[1].notFound \subseteq notFound

(***************************************************************************)
(* Properties of catalog entry expiry (SpecCache) and of the request loop  *)
(* (SpecRequest).                                                          *)
(***************************************************************************)

\* the expiry rule: an entry is stale when it has no timestamp or when
\* current - timestamp > expiry
Stale(timestamp, current, expiry) ==
    timestamp = Nothing \/ current - timestamp[1] > expiry

\* C19 (under SpecCache): a resolve that yields a catalog entry issues a full
\* fetch exactly when the entry is stale, whatever the configured expiry:
\* positive, zero (always refetch) or negative.
C19_RefetchWhenStale ==
    (lastResolve # Nothing /\ lastResolve[1].title # None) =>
        \A expiry \in Expiries :
            (lastResolve[1].requests > 0)
                <=> Stale(EntryTimestamp(lastResolve[1].title), now, expiry)

\* C20 (under SpecRequest): on a 429 response the loop goes to sleep for the
\* Retry-After duration and then repeats the same request; the rate-limit
\* signal never ends the call with an error; the call returns the first
\* response that is no error, and any other error ends it at once.
C20_RateLimitRetried ==
    /\ (lastResp # Nothing /\ lastResp[1].code = 429) =>
          /\ reqPc = "sleeping"
          /\ Some(wait) = IntOf(lastResp[1].retry_after[1])
    /\ lastRequest # Nothing =>
          /\ lastRequest[1].result.code # 429
          /\ lastRequest[1].raised = None <=> lastRequest[1].result.kind = "response"

(***************************************************************************)
(* Properties of the aggregate calls, checked under SpecAggregate.         *)
(***************************************************************************)

\* C21: an aggregate fetch_top or search that awaits its provider calls
\* eventually completes, whatever one of the providers does (its call never
\* returns, or its site signals a rate limit forever).
C21_AggregateCompletes == (aggPc = "waiting") ~> (aggPc = "done")

(***************************************************************************)
(* More properties of the resolution cache, checked under SpecCache.       *)
(***************************************************************************)

\* C22: listings that normalize to one key that is in neither cache, resolved
\* concurrently, issue at most one metadata search for the key: no two
\* coroutines ever await a search for the same key.
C22_OneSearchPerKey ==
    \A r1, r2 \in Resolvers :
        (r1 # r2 /\ task[r1] # Idle /\ task[r2] # Idle)
            => task[r1][1].key # task[r2][1].key

\* what a lookup of the listing's key in the two caches finds
Lookup(torrent) ==
    LET key == GetTorrentKey(torrent)
    IN  [id |-> IF key \in DOMAIN t2i THEN Some(t2i[key]) ELSE Nothing,
         notFound |-> key \in notFound]

\* a listing of which only the derived title and year matter (year: Nothing,
\* or Some(y))
Listing(title, year) ==
    [name_info |-> IF year = Nothing THEN [title |-> title]
                   ELSE [title |-> title, year |-> year[1]]]
KeyTitles == {TheMatrix, Ant}
KeyYears == {Nothing, Some(1998), Some(1999), Some(2000), Some(19990)}

CreatedUnderFault(faults) ==
    /\ lastOp # Nothing
    /\ lastOp[1].op = "create_profile"
    /\ lastOp[1].name \notin Range(lastOp[1].before)
    /\ lastOp[1].picture = NoPicture \/ (lastOp[1].picture = "png" /\ lastOp[1].picOk)
    /\ lastOp[1].fault \in faults

\* C30: when the profiles file cannot be written, create_profile
\* succeeds, get_profiles returns the new profile, and the file keeps the
\* content it had.
C30_FileKept ==
    CreatedUnderFault({"open_fails", "write_fails"}) =>
        /\ lastOp[1].raised = None
        /\ \E k \in DOMAIN GetProfiles(profiles) :
              GetProfiles(profiles)[k] = lastOp[1].name
        /\ profilesFile = lastOp[1].fileBefore

(***************************************************************************)
(* Properties of Core.top, checked under SpecCoreTop, and of the medias,   *)
(* checked under SpecMedias.                                               *)
(***************************************************************************)

\* C24: for a known profile and a known category, Core.top returns a list and
\* does not fail, whatever the snapshot file, the positive map and the stored
\* catalog entries are.
C24_TopNeverFails ==
    (coreTop # Nothing /\ coreTop[1].known) => coreTop[1].raised = None

\* the listing at position k of the call is resolved to a stored entry whose
\* type is one of the types of the category
ResolvedIn(torrents, k, category) ==
    /\ GetTitleFromTorrentCached(torrents[k]) # Nothing
    /\ GetTitleFromTorrentCached(torrents[k])[1].attrs.type \in category.imdb_type

C25_MissingPathIsCoreError ==
    (/\ core # Nothing
     /\ ~Has(options, "videos", "path") \/ ~Has(options, "plugins", "path"))
        => (core[1].raised = "CoreError" /\ ~core[1].created)

(***************************************************************************)
(* Properties of the provider's page, checked under SpecParse.             *)
(***************************************************************************)

\* the count of a cell, 0 when its text is no number
CountOrZero(data) == IF IntOfData(data) = Nothing THEN 0 ELSE IntOfData(data)[1]

\* C28: every row of the page gives a listing in what top() returns, with
\* seeders and leechers 0 where the cell's text cannot be parsed.
C28_UnparseableIsZero ==
    pageRet # Nothing =>
        /\ pageRet[1] # Nothing
        /\ Len(pageRet[1][1]) = Len(rows)
        /\ \A i \in 1..Len(rows) :
              /\ pageRet[1][1][i].name = rows[i].title
              /\ pageRet[1][1][i].seeders = CountOrZero(rows[i].seeders)
              /\ pageRet[1][1][i].leechers = CountOrZero(rows[i].leechers)

(***************************************************************************)
(* Properties of the web service, checked under SpecWeb.                   *)
(***************************************************************************)

\* C31: a profile request without the 'name' argument is answered with code 1
\* and the error "missing 'name' argument", and changes no profile.
C31_MissingNameAnswered ==
    (webResp # Nothing /\ webResp[1].name = Nothing) =>
        /\ webResp[1].resp = JsonError(MissingName)
        /\ ~webResp[1].changed

\* the year of the catalog entry with this id, as the search pages list it
CatalogYear(id) == (CHOOSE m \in {M99, S99, M98} : m.id = id).year

\* C32: a search called with a year returns only titles of that year, so a
\* listing with a year is bound in the positive map only to a catalog entry of
\* that same year.
C32_SearchKeepsYear ==
    \A t \in CacheTorrents :
        YearOf(t) # Nothing =>
            /\ (/\ lastResolve # Nothing
                /\ lastResolve[1].key = GetTorrentKey(t)
                /\ lastResolve[1].results # Nothing)
                  => \A i \in 1..Len(lastResolve[1].results[1]) :
                        lastResolve[1].results[1][i].year = YearOf(t)[1]
            /\ GetTorrentKey(t) \in DOMAIN t2i
                  => CatalogYear(t2i[GetTorrentKey(t)]) = YearOf(t)[1]

\* C34: a key of the positive map keeps its id and is never removed, and the
\* not-found set only grows, whatever the resolves and their interleaving.
C34_CachesOnlyGrow ==
    [][/\ \A k \in DOMAIN t2i : k \in DOMAIN t2i' /\ t2i'[k] = t2i[k]
       /\ notFound \subseteq notFound']_vars

(***************************************************************************)
(* More properties of the registry, checked under SpecRegistry.            *)
(***************************************************************************)

\* C33: the sentinel sorts after every candidate plugin name, so in a reload
\* of a directory that can be listed the cursor of the loaded names never goes
\* past the sentinel and the walk ends with one handle per candidate file.
C33_SentinelIsLast ==
    (lastReload # Nothing /\ dirOK) =>
        /\ \A k \in 1..Len(PluginsFiles(dirFiles)) :
              StrLess(RSplitDot(PluginsFiles(dirFiles)[k]), Sentinel)
        /\ lastReload[1].raised = None
        /\ Len(plugins) = Len(PluginsFiles(dirFiles))

(***************************************************************************)
(* More properties of the engine, checked under SpecEngine.                *)
(***************************************************************************)

\* C35: a fetch_top that gathers no listing (every provider failed or returned
\* nothing, or none is loaded) leaves the snapshot file of its category as it
\* was, and a top of that category still returns the listings of that file.
C35_EmptyFetchKeepsSnapshot ==
    (/\ lastFetch # Nothing
     /\ lastFetch[1].raised = None
     /\ Gathered(lastFetch[1].outcomes) = <<>>) =>
        /\ snapshot[GetId(lastFetch[1].category)] = lastFetch[1].before
        /\ (topRet # Nothing /\ topRet[1].category = lastFetch[1].category) =>
              topRet[1].ret = SortedBySeeders(Filter(ReadSnapshot(lastFetch[1].before),
                                                     topRet[1].filters))

\* a fetch_top gathered nothing while the file held an earlier list, and the
\* top after it returned listings of that list
C35_Witness ==
    /\ lastFetch # Nothing
    /\ lastFetch[1].raised = None
    /\ Gathered(lastFetch[1].outcomes) = <<>>
    /\ lastFetch[1].before # NoFile
    /\ topRet # Nothing
    /\ topRet[1].category = lastFetch[1].category
    /\ topRet[1].ret # <<>>

(***************************************************************************)
(* More properties of Core.top, checked under SpecCoreTop.                 *)
(***************************************************************************)

\* C36: a call of Core.top executes no plugin, calls no provider and makes no
\* request to the metadata service, and leaves the handle list, the positive
\* map, the not-found set and every file as they were.
C36_TopOnlyReads ==
    [][(coreTop' # Nothing /\ coreTop' # coreTop) =>
          /\ UNCHANGED <<plugins, loads, calls, searches, fetches>>
          /\ UNCHANGED <<t2i, notFound>>
          /\ UNCHANGED <<snapshot, partial, catalog, profilesFile, pictures, fileT2I,
                         fileNF>>]_vars

\* Core.top has returned medias: it read the snapshot, looked the keys up in
\* the positive map and read the stored entries
C36_Witness ==
    /\ coreTop # Nothing
    /\ coreTop[1].known
    /\ coreTop[1].raised = None
    /\ coreTop[1].ret # <<>>
    /\ plugins # <<>>

(***************************************************************************)
(* More properties of the medias, checked under SpecMedias.                *)
(***************************************************************************)

\* the media of the listing at position k of the call: Nothing when its key is
\* not in the positive map, when its entry is not stored, or when the title
\* gives no media for it
MediaOf(torrents, k) ==
    IF GetTitleFromTorrentCached(torrents[k]) = Nothing THEN Nothing
    ELSE GetMedia(GetTitleFromTorrentCached(torrents[k])[1], torrents[k])

\* the position of the first listing of the call whose media is m
FirstListing(torrents, m) ==
    CHOOSE k \in DOMAIN torrents :
        /\ MediaOf(torrents, k) = Some(m)
        /\ \A h \in 1..(k - 1) : MediaOf(torrents, h) # Some(m)

C38_PictureHasProfile == pictures \subseteq Range(profiles)

(***************************************************************************)
(* Properties of the video, checked under SpecVideo.                       *)
(***************************************************************************)

\* the chunks follow one another from offset from, and end at offset to
RECURSIVE Covers(_, _, _)
Covers(chunks, from, to) ==
    IF chunks = <<>> THEN from >= to
    ELSE /\ Head(chunks)[1] = from
         /\ Head(chunks)[2] > 0 /\ Head(chunks)[2] <= CHUNK_SIZE
         /\ Covers(Tail(chunks), from + Head(chunks)[2], to)

\* C39: for every range GetVideoHandler passes to it, get_content ends
\* without exception (its assertion holds) and yields, in chunks of at most
\* 64 KiB, exactly the bytes from start (0 when absent) up to end (the end of
\* the file when absent).
C39_ContentIsRange ==
    (videoResp # Nothing /\ videoResp[1].resp.content # Nothing) =>
        LET r == videoResp[1].resp
            from == IF r.start = Nothing THEN 0 ELSE r.start[1]
            to == IF r.end = Nothing THEN videoResp[1].size ELSE r.end[1]
        IN  /\ r.content[1].raised = None
            /\ Covers(r.content[1].chunks, from, to)

\* C40: when the page is parsed to its end, the listing of each row has the
\* magnet link, the size, the seeders and the leechers of that row, and for a
\* field the row lacks the default of a listing (None, None, 0, 0), never the
\* value read in an earlier row.
C40_FieldsOfSameRow ==
    (pageRet # Nothing /\ pageRet[1] # Nothing) =>
        /\ Len(pageRet[1][1]) = Len(rows)
        /\ \A i \in 1..Len(rows) :
              pageRet[1][1][i] =
                  [name |-> rows[i].title,
                   magnet |-> IF rows[i].magnet = Nothing THEN None ELSE rows[i].magnet[1],
                   size |-> IF rows[i].size = Nothing THEN None ELSE rows[i].size[1],
                   seeders |-> IF rows[i].seeders = <<>> THEN 0
                               ELSE IntOfData(rows[i].seeders)[1],
                   leechers |-> IF rows[i].leechers = <<>> THEN 0
                                ELSE IntOfData(rows[i].leechers)[1]]

====
